---- MODULE Spec2Model ----
(***************************************************************************)
(* Model of the FirstFix backend (src/app): the starter_kit request        *)
(* pipeline (routes.py), the snapshot cache and cold build (repopack.py),  *)
(* the vector index ingestion (vectordb.py, embeddings.py) and the         *)
(* guidance normalizer (routes.py).                                        *)
(*                                                                         *)
(* Strings are sequences of one-character strings, so that strip, prefix   *)
(* removal, truncation and case folding are computed as the code computes  *)
(* them.  A multi-line text is a sequence of lines (str.splitlines()).     *)
(***************************************************************************)
EXTENDS Integers, Sequences, FiniteSets, TLC

\* ------------------------------------------------------------------------
\* Characters and strings
\* ------------------------------------------------------------------------

Uppers == <<"A","B","C","D","E","F","G","H","I","J","K","L","M",
            "N","O","P","Q","R","S","T","U","V","W","X","Y","Z">>

Lowers == <<"a","b","c","d","e","f","g","h","i","j","k","l","m",
            "n","o","p","q","r","s","t","u","v","w","x","y","z">>

Digits == {"0","1","2","3","4","5","6","7","8","9"}

\* \s of the re module, for the characters the model uses
WhiteSpace == {" ", "\t", "\n"}

\* \w of the re module
WordChars == {Uppers[i] : i \in 1..26} \cup {Lowers[i] : i \in 1..26} \cup Digits \cup {"_"}

\* U+2022 (the bullet) and U+2013 (the en dash), written as atoms
Bullet == "<bullet>"

EnDash == "<endash>"

\* U+0060 (the backtick), written as an atom
Tick == "<tick>"

\* the characters str.lstrip(BULLET + "*- \t") removes
BulletChars == {Bullet, "*", "-", " ", "\t"}

\* str.lower() on one character
LowerChar(c) ==
  IF \E i \in 1..26 : Uppers[i] = c
  THEN Lowers[CHOOSE i \in 1..26 : Uppers[i] = c]
  ELSE c

\* str.lower()
LowerStr(s) == IF s = << >> THEN << >> ELSE [i \in 1..Len(s) |-> LowerChar(s[i])]

\* s[:n]
Take(s, n) == IF Len(s) <= n THEN s ELSE SubSeq(s, 1, n)

\* s[n:]  (n characters dropped)
Drop(s, n) == IF n >= Len(s) THEN << >> ELSE SubSeq(s, n + 1, Len(s))

\* number of leading characters of s that are in cs
LeadCount(s, cs) ==
  IF \A i \in 1..Len(s) : s[i] \in cs THEN Len(s)
  ELSE (CHOOSE i \in 1..Len(s) : s[i] \notin cs /\ \A j \in 1..(i-1) : s[j] \in cs) - 1

\* number of trailing characters of s that are in cs
TrailCount(s, cs) ==
  IF \A i \in 1..Len(s) : s[i] \in cs THEN Len(s)
  ELSE Len(s) - (CHOOSE i \in 1..Len(s) : s[i] \notin cs /\ \A j \in (i+1)..Len(s) : s[j] \in cs)

\* str.lstrip(cs)
LStripChars(s, cs) == Drop(s, LeadCount(s, cs))

\* str.rstrip(cs)
RStripChars(s, cs) == Take(s, Len(s) - TrailCount(s, cs))

\* str.strip(cs)
StripChars(s, cs) == RStripChars(LStripChars(s, cs), cs)

\* str.strip()
Strip(s) == StripChars(s, WhiteSpace)

\* s.startswith(p)
StartsWith(s, p) == Len(p) <= Len(s) /\ SubSeq(s, 1, Len(p)) = p

\* the characters of s at the positions in idx, in order
Pick(s, idx) ==
  IF idx = {} THEN << >>
  ELSE [k \in 1..Cardinality(idx) |->
          s[CHOOSE i \in idx : Cardinality({j \in idx : j <= i}) = k]]

\* re.sub(r'\s+', ' ', s): every run of whitespace becomes one space
CollapseWs(s) ==
  LET t == [i \in 1..Len(s) |-> IF s[i] \in WhiteSpace THEN " " ELSE s[i]]
  IN Pick(t, {i \in 1..Len(s) : s[i] \notin WhiteSpace \/ i = 1 \/ s[i-1] \notin WhiteSpace})

\* re.sub(r'^\d+[\.\)]\s*', '', s): one leading "1." or "1)" and the
\* whitespace after it
DropNumPrefix(s) ==
  LET d == LeadCount(s, Digits)
  IN IF d >= 1 /\ d < Len(s) /\ s[d + 1] \in {".", ")"}
     THEN LStripChars(Drop(s, d + 1), WhiteSpace)
     ELSE s

\* "\n".join(lines)
RECURSIVE JoinLines(_)
JoinLines(ls) ==
  IF ls = << >> THEN << >>
  ELSE IF Len(ls) = 1 THEN ls[1]
  ELSE ls[1] \o <<"\n">> \o JoinLines(Tail(ls))

\* str.split(): the maximal runs of non-whitespace characters
RECURSIVE Words(_)
Words(s) ==
  LET t == LStripChars(s, WhiteSpace)
      n == IF \E i \in 1..Len(t) : t[i] \in WhiteSpace
           THEN (CHOOSE i \in 1..Len(t) : t[i] \in WhiteSpace
                                          /\ \A j \in 1..(i-1) : t[j] \notin WhiteSpace) - 1
           ELSE Len(t)
  IN IF t = << >> THEN << >> ELSE <<Take(t, n)>> \o Words(Drop(t, n))

\* str.splitlines() for "\n" line ends: no empty last line after a final "\n"
RECURSIVE SplitLines(_)
SplitLines(s) ==
  IF s = << >> THEN << >>
  ELSE LET n == LeadCount(s, {s[i] : i \in 1..Len(s)} \ {"\n"})
       IN <<Take(s, n)>> \o SplitLines(Drop(s, n + 1))

\* [f(x) for x in xs if x.strip()] helpers work on sequences of strings
RECURSIVE NonBlank(_)
NonBlank(ls) ==
  IF ls = << >> THEN << >>
  ELSE (IF Strip(ls[1]) # << >> THEN <<ls[1]>> ELSE << >>) \o NonBlank(Tail(ls))

\* ------------------------------------------------------------------------
\* JSON-like values: what json.loads returns and what the documents hold
\* ------------------------------------------------------------------------

None == [t |-> "none", v |-> << >>]

\* a non-zero number (truthy, not iterable, no .strip)
Num == [t |-> "num", v |-> << >>]

Str(s) == [t |-> "str", v |-> s]

List(xs) == [t |-> "list", v |-> xs]

\* a JSON object: a function from some key names to values
Obj(o) == [t |-> "obj", v |-> o]

\* bool(x) of Python for these values
Truthy(x) ==
  CASE x.t = "none" -> FALSE
    [] x.t = "num" -> TRUE
    [] x.t = "obj" -> DOMAIN x.v # {}
    [] OTHER -> x.v # << >>

\* d.get(k)
Get(d, k) == IF k \in DOMAIN d THEN d[k] ELSE None

\* ------------------------------------------------------------------------
\* The guidance normalizer (routes.py)
\* ------------------------------------------------------------------------

_EXPECTED_KEYS == <<"high_level_goal", "where_to_work", "what_to_change", "how_to_verify", "gotchas">>

ListKeys == <<"where_to_work", "what_to_change", "how_to_verify", "gotchas">>

\* the five heading phrases, lower-cased, as the two heading patterns accept
\* them under re.I: High[- ]?level goal has three spellings
PhraseHighHyphen == <<"h","i","g","h","-","l","e","v","e","l"," ","g","o","a","l">>

PhraseHighSpace == <<"h","i","g","h"," ","l","e","v","e","l"," ","g","o","a","l">>

PhraseHighJoined == <<"h","i","g","h","l","e","v","e","l"," ","g","o","a","l">>

PhraseWhere == <<"w","h","e","r","e"," ","t","o"," ","w","o","r","k">>

PhraseWhat == <<"w","h","a","t"," ","t","o"," ","c","h","a","n","g","e">>

PhraseHow == <<"h","o","w"," ","t","o"," ","v","e","r","i","f","y">>

PhraseGotchas == <<"g","o","t","c","h","a","s">>

HeadingPhrases ==
  {PhraseHighHyphen, PhraseHighSpace, PhraseHighJoined, PhraseWhere, PhraseWhat,
   PhraseHow, PhraseGotchas}

\* the keys _split_sections reads its blocks by, in their exact spelling
KeyHigh == <<"H","i","g","h","-","l","e","v","e","l"," ","g","o","a","l">>

KeyWhere == <<"W","h","e","r","e"," ","t","o"," ","w","o","r","k">>

KeyWhat == <<"W","h","a","t"," ","t","o"," ","c","h","a","n","g","e">>

KeyHow == <<"H","o","w"," ","t","o"," ","v","e","r","i","f","y">>

KeyGotchas == <<"G","o","t","c","h","a","s">>

\* the tail "\s* :? \s*$" of both heading patterns, removed from s
DropHeadingTail(s) ==
  LET a == RStripChars(s, WhiteSpace)
      b == IF a # << >> /\ a[Len(a)] = ":" THEN Take(a, Len(a) - 1) ELSE a
  IN RStripChars(b, WhiteSpace)

\* the pattern of _clean_item's third re.sub matches all of s
IsHeadingOnly(s) ==
  LowerStr(DropHeadingTail(LStripChars(s, WhiteSpace))) \in HeadingPhrases

ItemCap == 300

StubLen == 2

_clean_item(s) ==
  LET s1 == Strip(s)
      s2 == LStripChars(s1, BulletChars)
      s3 == DropNumPrefix(s2)
      s4 == IF IsHeadingOnly(s3) THEN << >> ELSE s3
  IN Strip(CollapseWs(s4))

\* the first loop of _norm_list: clean, drop empties and stubs, cut, stop at limit
RECURSIVE NormCollect(_, _, _)
NormCollect(xs, limit, out) ==
  IF xs = << >> THEN out
  ELSE LET x == _clean_item(xs[1])
       IN IF x = << >> \/ Len(x) <= StubLen
          THEN NormCollect(Tail(xs), limit, out)
          ELSE IF Len(out) + 1 >= limit
               THEN Append(out, Take(x, ItemCap))
               ELSE NormCollect(Tail(xs), limit, Append(out, Take(x, ItemCap)))

\* the dedupe loop shared by _norm_list and _bulletize: first occurrence wins,
\* compared lower-cased
RECURSIVE DedupeLower(_, _, _)
DedupeLower(xs, seen, uniq) ==
  IF xs = << >> THEN uniq
  ELSE LET k == LowerStr(xs[1])
       IN IF k \in seen
          THEN DedupeLower(Tail(xs), seen, uniq)
          ELSE DedupeLower(Tail(xs), seen \cup {k}, Append(uniq, xs[1]))

\* xs is a sequence of strings
_norm_list(xs, limit) == DedupeLower(NormCollect(xs, limit, << >>), {}, << >>)

\* iterating a str yields its characters: each as a one-character string
CharsOf(s) == [i \in 1..Len(s) |-> <<s[i]>>]

\* "x or []" then the iteration of _norm_list: the items it walks over
IterItems(x) ==
  CASE x.t = "list" -> x.v
    [] x.t = "str" -> IF x.v = << >> THEN << >> ELSE CharsOf(x.v)
    [] OTHER -> << >>

\* _normalize_schema raises (AttributeError, TypeError) on these inputs
SchemaRaises(d) ==
  \/ LET g == Get(d, "high_level_goal") IN Truthy(g) /\ g.t # "str"
  \/ \E i \in 1..4 : LET x == Get(d, ListKeys[i]) IN Truthy(x) /\ x.t \notin {"list", "str"}

ListLimit(k) == IF k \in {"where_to_work", "what_to_change"} THEN 3 ELSE 2

\* the five keys read from d as they are, with nothing normalized
NormalizeSchemaRaw(d) ==
  [k \in {_EXPECTED_KEYS[i] : i \in 1..5} |-> Get(d, k)]

\* lines 250-268
_normalize_schema(d) ==
  LET g == Get(d, "high_level_goal")
      goal == _clean_item(IF Truthy(g) THEN g.v ELSE << >>)
      lst == [k \in {ListKeys[i] : i \in 1..4} |-> _norm_list(IterItems(Get(d, k)), ListLimit(k))]
      what == IF lst["where_to_work"] = << >> /\ lst["what_to_change"] = << >>
                 /\ lst["how_to_verify"] = << >> /\ goal # << >>
              THEN <<goal>>
              ELSE lst["what_to_change"]
      goal2 == IF goal = << >> /\ what # << >> THEN what[1] ELSE goal
  IN [high_level_goal |-> Str(goal2),
      where_to_work |-> List(lst["where_to_work"]),
      what_to_change |-> List(what),
      how_to_verify |-> List(lst["how_to_verify"]),
      gotchas |-> List(lst["gotchas"])]


\* s has w at position i
HasAt(s, w, i) == i >= 1 /\ i + Len(w) - 1 <= Len(s) /\ SubSeq(s, i, i + Len(w) - 1) = w

\* re.sub(r'\*\*(.*?)\*\*', r'\1', s): scanning left to right, a "**" with a
\* later "**" on the same line loses both marks
RECURSIVE StripBold(_)
StripBold(s) ==
  LET Star2 == <<"*", "*">>
      Closers(i) == {j \in (i+2)..Len(s) : HasAt(s, Star2, j)
                                          /\ \A m \in (i+2)..(j-1) : s[m] # "\n"}
      Openers == {i \in 1..Len(s) : HasAt(s, Star2, i) /\ Closers(i) # {}}
      i0 == CHOOSE i \in Openers : \A m \in Openers : i <= m
      j0 == CHOOSE j \in Closers(i0) : \A m \in Closers(i0) : j <= m
  IN IF Openers = {} THEN s
     ELSE SubSeq(s, 1, i0 - 1) \o SubSeq(s, i0 + 2, j0 - 1) \o StripBold(Drop(s, j0 + 1))

\* the second re.sub of _split_sections: a backtick with a later backtick
\* (anything but a backtick between them, line ends included) loses both
RECURSIVE StripTicks(_)
StripTicks(s) ==
  LET ticks == {i \in 1..Len(s) : s[i] = Tick}
      i0 == CHOOSE i \in ticks : \A m \in ticks : i <= m
      rest == {j \in ticks : j > i0}
      j0 == CHOOSE j \in rest : \A m \in rest : j <= m
  IN IF Cardinality(ticks) < 2 THEN s
     ELSE SubSeq(s, 1, i0 - 1) \o SubSeq(s, i0 + 1, j0 - 1) \o StripTicks(Drop(s, j0))

NoMatch == <<"<no match>">>

\* _HEADING_PAT on one line: the phrase it captures (group 1, in the line's own
\* spelling), or NoMatch.  Optional heading marks, bold mark, numbering; then
\* the phrase; then optional bold mark, colon, whitespace to the end of line.
HeadingName(line) ==
  LET a == LStripChars(line, WhiteSpace)
      h == LeadCount(a, {"#"})
      b == IF h >= 1 THEN LStripChars(Drop(a, IF h <= 6 THEN h ELSE 6), WhiteSpace) ELSE a
      c == IF HasAt(b, <<"*", "*">>, 1) THEN Drop(b, 2) ELSE b
      d == DropNumPrefix(c)
      e == DropHeadingTail(d)
      f == IF Len(e) >= 2 /\ HasAt(e, <<"*", "*">>, Len(e) - 1) THEN Take(e, Len(e) - 2) ELSE e
  IN IF LowerStr(f) \in HeadingPhrases THEN f ELSE NoMatch

NoSections == [none |-> TRUE]

\* the indexes of the lines of ls that _HEADING_PAT matches
HeadingLines(ls) == {j \in 1..Len(ls) : HeadingName(ls[j]) # NoMatch}

\* the first heading line after line i, or one past the last line
NextHeading(heads, i, n) ==
  IF \E j \in heads : j > i
  THEN CHOOSE j \in heads : j > i /\ \A m \in heads : m > i => j <= m
  ELSE n + 1

\* blocks[name] = content for the heading lines of ls from line i on; a later
\* heading of the same spelling overwrites an earlier one
RECURSIVE SectionBlocks(_, _, _, _)
SectionBlocks(ls, heads, i, blocks) ==
  IF i > Len(ls) THEN blocks
  ELSE IF i \notin heads THEN SectionBlocks(ls, heads, i + 1, blocks)
  ELSE LET Put(name, nxt) ==
             SectionBlocks(ls, heads, nxt,
               [k \in DOMAIN blocks \cup {name} |->
                  IF k = name THEN Strip(JoinLines(SubSeq(ls, i + 1, nxt - 1)))
                  ELSE blocks[k]])
       IN Put(HeadingName(ls[i]), NextHeading(heads, i, Len(ls)))

\* sections.get(k, "").strip() on the blocks
SectionGet(blocks, k) == IF k \in DOMAIN blocks THEN Strip(blocks[k]) ELSE << >>

\* the dict _split_sections returns for its blocks: empty without a match
SectionsOf(blocks) ==
  IF DOMAIN blocks = {} THEN NoSections
  ELSE [high |-> SectionGet(blocks, KeyHigh), where |-> SectionGet(blocks, KeyWhere),
        what |-> SectionGet(blocks, KeyWhat), how |-> SectionGet(blocks, KeyHow),
        gotchas |-> SectionGet(blocks, KeyGotchas)]

\* the lines of the text and their blocks
BlocksOfLines(ls) == SectionBlocks(ls, HeadingLines(ls), 1, << >>)

_split_sections(text) == SectionsOf(BlocksOfLines(SplitLines(StripTicks(StripBold(text)))))

\* the map over lines in _to_list and _bulletize
RECURSIVE MapStripList(_)
MapStripList(ls) ==
  IF ls = << >> THEN << >>
  ELSE <<Strip(StripChars(ls[1], {Bullet, "-", " "}))>> \o MapStripList(Tail(ls))

SectionListCap == 6

\* _to_list of _postprocess_llm_text
_to_list(txt) == Take(MapStripList(NonBlank(SplitLines(txt))), SectionListCap)

\* the normalising loop of _bulletize over the stripped non-blank lines
RECURSIVE BulletNorm(_)
BulletNorm(ls) ==
  IF ls = << >> THEN << >>
  ELSE LET l == DropNumPrefix(LStripChars(LStripChars(Strip(ls[1]), BulletChars), WhiteSpace))
       IN (IF l # << >> THEN <<l>> ELSE << >>) \o BulletNorm(Tail(ls))

\* re.split(r"(?<=[.!?])\s+", raw), stripped and non-empty pieces
RECURSIVE SentenceSplit(_)
SentenceSplit(s) ==
  LET cuts == {i \in 2..Len(s) : s[i] \in WhiteSpace /\ s[i-1] \in {".", "!", "?"}}
      i0 == CHOOSE i \in cuts : \A m \in cuts : i <= m
      piece(x) == IF Strip(x) # << >> THEN <<Strip(x)>> ELSE << >>
  IN IF cuts = {} THEN piece(s)
     ELSE piece(Take(s, i0 - 1))
          \o SentenceSplit(LStripChars(Drop(s, i0 - 1), WhiteSpace))

RECURSIVE MapTake(_, _)
MapTake(xs, n) ==
  IF xs = << >> THEN << >> ELSE <<Take(xs[1], n)>> \o MapTake(Tail(xs), n)

BulletCap == 8

_bulletize(text) ==
  LET raw == Strip(text)
      norm == BulletNorm(NonBlank(SplitLines(raw)))
      items == IF Len(norm) >= 2 THEN norm ELSE SentenceSplit(raw)
  IN IF raw = << >> THEN << >>
     ELSE Take(DedupeLower(MapTake(items, ItemCap), {}, << >>), BulletCap)

\* \bw\b found in s, ignoring case; w is lower case and starts and ends with
\* a word character
HasWord(s, w) ==
  LET l == LowerStr(s)
  IN \E i \in 1..Len(l) :
       /\ HasAt(l, w, i)
       /\ (i = 1 \/ l[i-1] \notin WordChars)
       /\ (i + Len(w) > Len(l) \/ l[i + Len(w)] \notin WordChars)

ActionVerbs ==
  {<<"f","i","x">>,
   <<"i","m","p","l","e","m","e","n","t">>,
   <<"a","d","d">>,
   <<"h","a","n","d","l","e">>,
   <<"r","e","t","u","r","n">>,
   <<"u","p","d","a","t","e">>,
   <<"s","u","p","p","o","r","t">>}

CmdWords ==
  {<<"p","y","t","e","s","t">>,
   <<"n","p","m">>,
   <<"p","n","p","m">>,
   <<"y","a","r","n">>,
   <<"d","o","c","k","e","r">>,
   <<"m","a","k","e">>}

WPython == <<"p","y","t","h","o","n">>

WManagePy == <<"m","a","n","a","g","e",".","p","y">>

\* python\s+manage\.py between word boundaries
HasManagePy(s) ==
  LET l == LowerStr(s)
  IN \E i \in 1..Len(l) :
       /\ HasAt(l, WPython, i)
       /\ (i = 1 \/ l[i-1] \notin WordChars)
       /\ LET rest == Drop(l, i + Len(WPython) - 1)
              w == LeadCount(rest, WhiteSpace)
              n == w + Len(WManagePy)
          IN /\ w >= 1
             /\ HasAt(rest, WManagePy, w + 1)
             /\ (n >= Len(rest) \/ rest[n + 1] \notin WordChars)

\* _CMD_HINT_PAT.search(s)
HasCmd(s) == (\E w \in CmdWords : HasWord(s, w)) \/ HasManagePy(s)

CautionWords ==
  {<<"b","e","w","a","r","e">>,
   <<"n","o","t","e">>,
   <<"g","o","t","c","h","a">>,
   <<"c","a","u","t","i","o","n">>,
   <<"e","d","g","e"," ","c","a","s","e">>,
   <<"w","a","t","c","h"," ","o","u","t">>}

\* re.match(r"(?i)^(beware|note|...)", s): a prefix, no word boundary after it
LooksGotcha(s) == \E w \in CautionWords : StartsWith(LowerStr(s), w)

\* what _CITATION_PAT wants after the colon: spaces, digits, a dash, digits, ")"
CiteTail(t) ==
  LET a == LStripChars(t, WhiteSpace)
      d == LeadCount(a, Digits)
      b == Drop(a, d + 1)
      e == LeadCount(b, Digits)
  IN /\ d >= 1 /\ d < Len(a) /\ a[d + 1] \in {"-", EnDash}
     /\ e >= 1 /\ e < Len(b) /\ b[e + 1] = ")"

\* _CITATION_PAT.search(s): "(" path ":" spaces digits dash digits ")", the
\* path one or more characters that are no whitespace and no parenthesis
HasCitation(s) ==
  \E i \in {x \in 1..Len(s) : s[x] = "("} :
    \E j \in {x \in (i+2)..Len(s) : s[x] = ":"} :
      /\ \A x \in (i+1)..(j-1) : s[x] \notin WhiteSpace \cup {"(", ")"}
      /\ CiteTail(Drop(s, j))

GoalMaxWords == 22

\* the first loop of _classify_into_schema: the first short item with an
\* action verb, or "" when there is none
RECURSIVE PickGoal(_)
PickGoal(items) ==
  IF items = << >> THEN << >>
  ELSE IF Len(Words(items[1])) <= GoalMaxWords /\ \E w \in ActionVerbs : HasWord(items[1], w)
       THEN items[1]
       ELSE PickGoal(Tail(items))

\* as Bucket, with the citation looked at before the command token
BucketCitationFirst(i) ==
  IF HasCitation(i) THEN "where_to_work"
  ELSE IF HasCmd(i) THEN "how_to_verify"
  ELSE IF LooksGotcha(i) THEN "gotchas"
  ELSE "what_to_change"

\* the bucket the second loop of _classify_into_schema appends item i to
Bucket(i) ==
  IF HasCmd(i) THEN "how_to_verify"
  ELSE IF LooksGotcha(i) THEN "gotchas"
  ELSE IF HasCitation(i) THEN "where_to_work"
  ELSE "what_to_change"

\* the items of one bucket, in order, the goal item skipped
RECURSIVE BucketItems(_, _, _)
BucketItems(items, goal, b) ==
  IF items = << >> THEN << >>
  ELSE (IF (goal # << >> /\ items[1] = goal) \/ Bucket(items[1]) # b
        THEN << >> ELSE <<items[1]>>) \o BucketItems(Tail(items), goal, b)

_classify_into_schema(text) ==
  LET items == _bulletize(text)
      goal == PickGoal(items)
  IN [high_level_goal |-> Str(goal),
      where_to_work |-> List(Take(BucketItems(items, goal, "where_to_work"), 3)),
      what_to_change |-> List(Take(BucketItems(items, goal, "what_to_change"), 3)),
      how_to_verify |-> List(Take(BucketItems(items, goal, "how_to_verify"), 2)),
      gotchas |-> List(Take(BucketItems(items, goal, "gotchas"), 2))]


\* what json.loads raises on
ParseError == [t |-> "error", v |-> << >>]

\* the alternate keys _parse_llm_json accepts for each expected key, in order
AltKeys(k) ==
  CASE k = "high_level_goal" -> <<"High-level goal", "High level goal", "Goal">>
    [] k = "where_to_work" -> <<"Where to work">>
    [] k = "what_to_change" -> <<"What to change">>
    [] k = "how_to_verify" -> <<"How to verify", "Verification">>
    [] k = "gotchas" -> <<"Gotchas", "Caveats", "Pitfalls">>

\* the key of obj whose value is mapped to expected key k, or "" when none is
MappedFrom(obj, k) ==
  LET alt == AltKeys(k)
      hits == {i \in 1..Len(alt) : alt[i] \in DOMAIN obj}
  IN IF k \in DOMAIN obj THEN k
     ELSE IF hits = {} THEN ""
     ELSE alt[CHOOSE i \in hits : \A j \in hits : i <= j]

\* the dict "mapped" that _parse_llm_json builds from obj
MappedDict(obj) ==
  LET ks == {_EXPECTED_KEYS[i] : i \in 1..5}
  IN [k \in {x \in ks : MappedFrom(obj, x) # ""} |-> obj[MappedFrom(obj, k)]]

\* raw_text is the generated text; js is what json.loads returns for the first
\* brace-delimited block of it (for all of it when it holds no such block), or
\* ParseError.  The result is a document, or None.
_parse_llm_json(raw_text, js) ==
  LET obj == IF js.t = "obj" /\ "hints" \in DOMAIN js.v /\ js.v["hints"].t = "obj"
             THEN js.v["hints"] ELSE js
  IN IF raw_text = << >> THEN None
     ELSE IF js = ParseError THEN None
     ELSE IF obj.t # "obj" THEN None
     ELSE IF SchemaRaises(MappedDict(obj.v)) THEN None
     ELSE _normalize_schema(MappedDict(obj.v))

RECURSIVE JoinWords(_)
JoinWords(ws) ==
  IF ws = << >> THEN << >>
  ELSE IF Len(ws) = 1 THEN ws[1]
  ELSE ws[1] \o <<" ">> \o JoinWords(Tail(ws))

WordCap == 260

\* the document of the heading-split stage, built from the sections
SectionsDoc(sections) ==
  [high_level_goal |-> Str(Strip(sections.high)),
   where_to_work |-> List(_to_list(sections.where)),
   what_to_change |-> List(_to_list(sections.what)),
   how_to_verify |-> List(_to_list(sections.how)),
   gotchas |-> List(_to_list(sections.gotchas))]

_postprocess_llm_text(text) ==
  LET t1 == Strip(text)
      t2 == IF Len(Words(t1)) > WordCap THEN JoinWords(Take(Words(t1), WordCap)) ELSE t1
      sections == _split_sections(t2)
  IN IF sections # NoSections THEN SectionsDoc(sections) ELSE _classify_into_schema(t2)

FallbackGoalPrefix ==
  <<"A","d","d","r","e","s","s"," ","t","h","e"," ","r","e","q","u","e","s",
    "t"," ","i","n",":"," ">>

FallbackWhere ==
  <<"S","k","i","m"," ","t","h","e"," ","R","E","A","D","M","E"," ","f","o",
    "r"," ","r","u","n"," ","s","t","e","p","s"," ","a","n","d"," ","s","c",
    "a","n"," ","t","e","s","t","s"," ","r","e","l","a","t","e","d"," ","t",
    "o"," ","t","h","e"," ","f","e","a","t","u","r","e",".">>

FallbackWhat ==
  <<"L","o","c","a","t","e"," ","t","h","e"," ","f","u","n","c","t","i","o",
    "n"," ","o","r"," ","r","o","u","t","e"," ","m","e","n","t","i","o","n",
    "e","d"," ","i","n"," ","t","h","e"," ","i","s","s","u","e"," ","a","n",
    "d"," ","a","d","j","u","s","t"," ","t","h","e"," ","m","i","n","i","m",
    "a","l"," ","l","o","g","i","c",".">>

FallbackHow ==
  <<"R","u","n"," ","t","h","e"," ","r","e","p","o","s","i","t","o","r","y",
    "'","s"," ","t","e","s","t"," ","o","r"," ","d","e","v"," ","s","c","r",
    "i","p","t","s"," ","a","n","d"," ","v","a","l","i","d","a","t","e"," ",
    "t","h","e"," ","b","e","h","a","v","i","o","r"," ","m","a","n","u","a",
    "l","l","y",".">>

FallbackGotchas ==
  <<"A","v","o","i","d"," ","l","a","r","g","e"," ","r","e","f","a","c","t",
    "o","r","s",";"," ","k","e","e","p"," ","t","h","e"," ","c","h","a","n",
    "g","e"," ","s","c","o","p","e","d"," ","t","o"," ","t","h","e"," ","i",
    "s","s","u","e",".">>

FallbackGoalCap == 200

\* title is issue.get("title", "")
_fallback_hints(title) ==
  [high_level_goal |-> Str(Take(FallbackGoalPrefix \o title, FallbackGoalCap)),
   where_to_work |-> List(<<FallbackWhere>>),
   what_to_change |-> List(<<FallbackWhat>>),
   how_to_verify |-> List(<<FallbackHow>>),
   gotchas |-> List(<<FallbackGotchas>>)]

\* lines 428-436 of starter_kit._work: the JSON stage first, the text
\* post-processor when it yields nothing
\* as HintsFromText, with the text stages tried before the parsed document
HintsTextFirst(raw_text, js) ==
  LET parsed == _parse_llm_json(raw_text, js)
  IN IF _split_sections(Strip(raw_text)) # NoSections \/ parsed = None
     THEN _postprocess_llm_text(raw_text) ELSE parsed

HintsFromText(raw_text, js) ==
  LET parsed == _parse_llm_json(raw_text, js)
  IN IF parsed # None THEN parsed ELSE _postprocess_llm_text(raw_text)


\* ------------------------------------------------------------------------
\* State
\* ------------------------------------------------------------------------

VARIABLES
  \* the normalizer driven on its own: a generated text, what json.loads makes
  \* of its brace block, the stage that produced the document, and the document
  genText, genJson, normStage, normDoc,
  \* the service: the snapshot cache (the keys of the dict, in insertion
  \* order), the guidance cache, the state of each key's collection in the
  \* vector index, the wall clock, the step the request in flight is at, its
  \* local variables, and the response
  _REPO_PACKS, _HINTS_CACHE, collections, now, pc, rq, out,
  \* history: requests started, cold builds completed, and the last response
  \* that was no fallback (its pair of snapshot and issue, and when it was sent)
  nReq, nBuilt, served,
  \* upsert_chunks called twice with the same chunks: the chunks, the number of
  \* the call, where it is, its loop variables, whether MAX_EMBED_SECONDS has
  \* passed, the ids in the collection, what the first call left, what the
  \* call in progress has stored
  upChunks, upCall, upPhase, upIdx, upText, upParts, upSub, upIds, upExpired, upColl,
  upFirst, upKept,
  \* the docs and metas gathered beside the ids, the rows of the collection by
  \* id, and the rows it held when the call in progress started
  upRows, upStore, upBefore,
  \* and what embed_texts did in the call: the places in the batch that got
  \* no vector, whether it raised there, and the texts it handed to
  \* genai.embed_content, in order
  upEmbed,
  \* retrieve_chunks_for_hints: the candidates the index returned, k, min_sim,
  \* the place in the loop over the candidates, the items kept so far in the
  \* order they were put in, and whether the loop has ended
  rtRaw, rtK, rtMinSim, rtIdx, rtByPath, rtDone,
  \* the chunkers on one file: which chunker, the text, the chunks returned
  \* and whether the call has returned
  ckRole, ckText, ckOut, ckDone,
  \* the fetch loop of a cold build: the tree listing, the candidates, the
  \* place in the loop, the chunks and total_chars so far, where the build is,
  \* and as history the paths fetched and the files that were chunked (path,
  \* characters, number of chunks)
  bdTree, bdCands, bdIdx, bdChunks, bdTotal, bdPhase, bdFetched, bdAccepted,
  \* and what the last fetch came back with: an error, a text over the per-file
  \* ceiling, or a text that was read on
  bdLast,
  \* _normalize_schema applied to its own output: the mapping last handed to
  \* it, what it returned, and the number of passes made
  idIn, idOut, idPasses,
  \* build_repo_pack with whole packs: the entries of _REPO_PACKS in dict
  \* order, the state of the collection of each key, where the call is, what
  \* it has resolved and built, what it returned or raised, and as history the
  \* cache and collections when the call started, the requests it has made and
  \* the number of calls
  pkPacks, pkColls, pkPc, pkCall, pkRet, pkBefore, pkOps, pkCalls,
  \* for each key, the number of the call that stored it last and of the call
  \* that hit it last (0 for none)
  pkHist,
  \* two build_repo_pack calls in two threads, from the cache test on: the keys
  \* of _REPO_PACKS in dict order, the ids in the collection of each key, and
  \* for each thread its key, where it is, the iterator it holds (the size of
  \* the dict when it was made), the key it is about to pop and what it raised
  rcPacks, rcIds, rcThr

normVars == <<genText, genJson, normStage, normDoc>>

pipeVars == <<_REPO_PACKS, _HINTS_CACHE, collections, now, pc, rq, out, nReq, nBuilt, served>>

upVars ==
  <<upChunks, upCall, upPhase, upIdx, upText, upParts, upSub, upIds, upExpired, upColl,
    upFirst, upKept, upRows, upStore, upBefore, upEmbed>>

retrVars == <<rtRaw, rtK, rtMinSim, rtIdx, rtByPath, rtDone>>

\* the state of the parts that are checked on their own
chunkVars == <<ckRole, ckText, ckOut, ckDone>>

buildVars ==
  <<bdTree, bdCands, bdIdx, bdChunks, bdTotal, bdPhase, bdFetched, bdAccepted, bdLast>>

idemVars == <<idIn, idOut, idPasses>>

packVars == <<pkPacks, pkColls, pkPc, pkCall, pkRet, pkBefore, pkOps, pkCalls, pkHist>>

raceVars == <<rcPacks, rcIds, rcThr>>

moreVars == <<retrVars, chunkVars, buildVars, idemVars, packVars, raceVars>>

vars == <<normVars, pipeVars, upVars, moreVars>>

\* no call of retrieve_chunks_for_hints under way
RetrIdle ==
  /\ rtRaw = << >>
  /\ rtK = 0
  /\ rtMinSim = 0
  /\ rtIdx = 0
  /\ rtByPath = << >>
  /\ rtDone = TRUE

\* no chunker under way
ChunkIdle ==
  /\ ckRole = "none"
  /\ ckText = << >>
  /\ ckOut = << >>
  /\ ckDone = TRUE

\* no fetch loop under way
BuildIdle ==
  /\ bdTree = << >>
  /\ bdCands = << >>
  /\ bdIdx = 0
  /\ bdChunks = << >>
  /\ bdTotal = 0
  /\ bdPhase = "idle"
  /\ bdFetched = << >>
  /\ bdAccepted = << >>
  /\ bdLast = "none"

\* no pass of _normalize_schema made
IdemIdle ==
  /\ idIn = << >>
  /\ idOut = << >>
  /\ idPasses = 0

\* no pack built and no call of build_repo_pack under way
PackIdle ==
  /\ pkPacks = << >>
  /\ pkColls = << >>
  /\ pkPc = "idle"
  /\ pkCall = << >>
  /\ pkRet = << >>
  /\ pkBefore = << >>
  /\ pkOps = {}
  /\ pkCalls = 0
  /\ pkHist = << >>

\* no thread in build_repo_pack
RaceIdle ==
  /\ rcPacks = << >>
  /\ rcIds = << >>
  /\ rcThr = << >>

MoreIdle == RetrIdle /\ ChunkIdle /\ BuildIdle /\ IdemIdle /\ PackIdle /\ RaceIdle

\* embed_texts not called
NoEmbed == [lost |-> {}, raised |-> FALSE, handed |-> << >>]

\* no call of upsert_chunks under way
UpsertIdle ==
  /\ upChunks = << >>
  /\ upCall = 0
  /\ upPhase = "idle"
  /\ upIdx = 0
  /\ upText = << >>
  /\ upParts = << >>
  /\ upSub = 0
  /\ upIds = << >>
  /\ upExpired = FALSE
  /\ upColl = {}
  /\ upFirst = [count |-> 0, ids |-> {}, full |-> FALSE]
  /\ upKept = {}
  /\ upRows = << >>
  /\ upStore = << >>
  /\ upBefore = << >>
  /\ upEmbed = NoEmbed

\* the snapshot keys "owner/name@sha" the requests resolve to
Keys == {"o/r1@s1", "o/r2@s2", "o/r3@s3"}

Issues == {1, 2}

\* the local variables of a request before its first step
NoRequest ==
  [key |-> "", number |-> 0, title |-> << >>, build |-> "unset", fetched |-> FALSE,
   sizeBefore |-> 0, retr |-> "unset", chunks |-> << >>, entry |-> "unset", cached |-> FALSE,
   prompt |-> [built |-> FALSE, chunks |-> << >>], gen |-> "unset", events |-> << >>]

NoResponse == [status |-> 0, error |-> "", hints |-> None, hints_fallback |-> FALSE]

NeverServed == [key |-> "", number |-> 0, at |-> 0]

\* the service before its first request
PipeInit ==
  /\ _REPO_PACKS = << >>
  /\ _HINTS_CACHE = << >>
  /\ collections = [k \in Keys |-> "absent"]
  /\ now = 0
  /\ pc = "idle"
  /\ rq = NoRequest
  /\ out = NoResponse
  /\ nReq = 0
  /\ nBuilt = 0
  /\ served = NeverServed

\* ------------------------------------------------------------------------
\* The normalizer on generated texts (lines 425-440 of starter_kit._work)
\* ------------------------------------------------------------------------

\* the lines generated texts are made of.  HeadingName reads _HEADING_PAT line
\* by line, so no line here is only heading marks, a bold mark or a number
\* (which the pattern's \s* could join to a heading on the next line), and
\* none is only a colon
LnGotchas == <<"G","o","t","c","h","a","s">>

LnWhereBold == <<"*","*","W","h","e","r","e"," ","t","o"," ","w","o","r","k","*","*",":">>

LnHighLower == <<"#","#"," ","h","i","g","h","-","l","e","v","e","l"," ","g","o","a","l">>

LnFix == <<"-"," ","F","i","x"," ","t","h","e"," ","b","u","g">>

LnFixLower == <<"f","i","x"," ","t","h","e"," ","b","u","g">>

LnPytest == <<"R","u","n"," ","p","y","t","e","s","t">>

LnNoteCite == <<"N","o","t","e"," ","(","a",".","p","y",":"," ","1","-","2",")">>

LnStub == <<"a","b">>

NormLines == {LnGotchas, LnWhereBold, LnHighLower, LnFix, LnFixLower, LnPytest, LnNoteCite}

\* the strings JSON values are made of
JsonItems == {LnFix, LnFixLower, LnPytest, LnStub}

\* the keys of the JSON objects
JsonListKeys == {"where_to_work", "what_to_change", "gotchas", "Caveats"}

\* a text that holds one brace-delimited block
JsonRaw == <<"{", "}">>

\* a brace-delimited block json.loads rejects
BadJsonRaw == <<"{", "x", "}">>

IssueTitles == {<<"T">>, << >>}

MaxLines == 4

MaxJsonItems == 3

\* the number of lines of a text
LineCount(text) == Len(SplitLines(text))

\* the number of list items and other values a JSON object holds
RECURSIVE JsonItemCount(_)
JsonItemCount(o) ==
  IF DOMAIN o = {} THEN 0
  ELSE LET k == CHOOSE x \in DOMAIN o : TRUE
           rest == [x \in DOMAIN o \ {k} |-> o[x]]
       IN (IF o[k].t = "list" THEN Len(o[k].v) ELSE 1) + JsonItemCount(rest)

\* the keys a JSON object gives a string, a number or null, with the values
JsonScalars ==
  {<<"high_level_goal", Str(LnFix)>>, <<"high_level_goal", Num>>, <<"Goal", Str(LnPytest)>>,
   <<"how_to_verify", Str(LnFix)>>, <<"gotchas", None>>}

\* the normalizer before a text is generated
NormIdle ==
  /\ genText = << >>
  /\ genJson = ParseError
  /\ normStage = "input"
  /\ normDoc = None

NormInit == NormIdle /\ PipeInit /\ UpsertIdle /\ MoreIdle

\* the Text Generation Service writes one more line of plain text
GenAppendLine ==
  /\ normStage = "input"
  /\ genJson = ParseError
  /\ genText # BadJsonRaw
  /\ LineCount(genText) < MaxLines
  /\ \E l \in NormLines :
       genText' = IF genText = << >> THEN l ELSE genText \o <<"\n">> \o l
  /\ UNCHANGED <<genJson, normStage, normDoc, pipeVars, upVars, moreVars>>

\* the Text Generation Service writes a brace block: an empty object, or one
\* json.loads rejects
GenJsonBlock ==
  /\ normStage = "input"
  /\ genText = << >>
  /\ \/ genText' = JsonRaw /\ genJson' = Obj(<< >>)
     \/ genText' = BadJsonRaw /\ genJson' = ParseError
  /\ UNCHANGED <<normStage, normDoc, pipeVars, upVars, moreVars>>

\* one more string in a list of the object
GenJsonItem ==
  /\ normStage = "input"
  /\ genJson.t = "obj"
  /\ "hints" \notin DOMAIN genJson.v
  /\ JsonItemCount(genJson.v) < MaxJsonItems
  /\ \E k \in JsonListKeys : \E x \in JsonItems :
       /\ k \in DOMAIN genJson.v => genJson.v[k].t = "list"
       /\ genJson' = Obj([j \in DOMAIN genJson.v \cup {k} |->
                            IF j = k THEN List(Append(Get(genJson.v, k).v, x))
                            ELSE genJson.v[j]])
  /\ UNCHANGED <<genText, normStage, normDoc, pipeVars, upVars, moreVars>>

\* a key of the object set to a string, a number or null
GenJsonScalar ==
  /\ normStage = "input"
  /\ genJson.t = "obj"
  /\ "hints" \notin DOMAIN genJson.v
  /\ JsonItemCount(genJson.v) < MaxJsonItems
  /\ \E kx \in JsonScalars :
       /\ kx[1] \notin DOMAIN genJson.v
       /\ genJson' = Obj([j \in DOMAIN genJson.v \cup {kx[1]} |->
                            IF j = kx[1] THEN kx[2] ELSE genJson.v[j]])
  /\ UNCHANGED <<genText, normStage, normDoc, pipeVars, upVars, moreVars>>

\* the object nested under the key "hints"
GenJsonWrap ==
  /\ normStage = "input"
  /\ genJson.t = "obj"
  /\ "hints" \notin DOMAIN genJson.v
  /\ genJson' = Obj([j \in {"hints"} |-> genJson])
  /\ UNCHANGED <<genText, normStage, normDoc, pipeVars, upVars, moreVars>>

\* the stage whose document HintsFromText returns
StageOf(raw_text, js) ==
  IF _parse_llm_json(raw_text, js) # None THEN "json"
  ELSE IF _split_sections(Strip(raw_text)) # NoSections THEN "headings"
  ELSE "classify"

\* generate_hints_text returned genText: lines 428-436
NormalizeText ==
  /\ normStage = "input"
  /\ normDoc' = HintsFromText(genText, genJson)
  /\ normStage' = StageOf(genText, genJson)
  /\ UNCHANGED <<genText, genJson, pipeVars, upVars, moreVars>>

\* generate_hints_text raised or timed out: lines 437-440
NormalizeFallback ==
  /\ normStage = "input"
  /\ \E title \in IssueTitles : normDoc' = _fallback_hints(title)
  /\ normStage' = "fallback"
  /\ UNCHANGED <<genText, genJson, pipeVars, upVars, moreVars>>

NormNext ==
  \/ GenAppendLine
  \/ GenJsonBlock
  \/ GenJsonItem
  \/ GenJsonScalar
  \/ GenJsonWrap
  \/ NormalizeText
  \/ NormalizeFallback

SpecNorm == NormInit /\ [][NormNext]_vars

\* ------------------------------------------------------------------------
\* The stages of the normalizer on texts that hold lines and a block at once
\* (lines 270-306 and 428-436)
\* ------------------------------------------------------------------------

MaxStageLines == 1

\* the texts of at most n lines
RECURSIVE TextsOfLines(_)
TextsOfLines(n) ==
  IF n = 0 THEN {<< >>}
  ELSE LET shorter == TextsOfLines(n - 1)
       IN shorter \cup {IF t = << >> THEN l ELSE t \o <<"\n">> \o l :
                          t \in shorter, l \in NormLines}

\* a text followed by a brace block on a line of its own
WithBlock(text, block) == IF text = << >> THEN block ELSE text \o <<"\n">> \o block

\* the objects json.loads makes of a brace block: no key or one key, as they
\* are or nested under "hints"
StageEntries ==
  JsonScalars \cup {<<k, List(<<x>>)>> : k \in JsonListKeys, x \in JsonItems}

StageFlatObjects == {Obj(<< >>)} \cup {Obj([j \in {e[1]} |-> e[2]]) : e \in StageEntries}

StageObjects == StageFlatObjects \cup {Obj([j \in {"hints"} |-> o]) : o \in StageFlatObjects}

\* a text without braces that is JSON as a whole: _JSON_BLOCK finds nothing,
\* block = raw_text (line 278) and json.loads returns a list or a number
ListRaw == <<"[", "]">>

NumRaw == <<"3">>

\* a generated text with what json.loads makes of its block
StageInputs ==
  {<<t, ParseError>> : t \in TextsOfLines(MaxStageLines)}
    \cup {<<WithBlock(t, JsonRaw), o>> : t \in TextsOfLines(MaxStageLines), o \in StageObjects}
    \cup {<<WithBlock(t, BadJsonRaw), ParseError>> : t \in TextsOfLines(MaxStageLines)}
    \cup {<<ListRaw, List(<< >>)>>, <<NumRaw, Num>>}

StageInit ==
  /\ \E in \in StageInputs : genText = in[1] /\ genJson = in[2]
  /\ normStage = "input"
  /\ normDoc = None
  /\ PipeInit
  /\ UpsertIdle
  /\ MoreIdle

StageNext ==
  \/ NormalizeText
  \/ NormalizeFallback

SpecStage == StageInit /\ [][StageNext]_vars

\* ------------------------------------------------------------------------
\* The classification stage on texts without heading and without block
\* (lines 131-214): a line with an action verb, a plain line, two with a
\* command token, one with a command token and a citation, one with a caution
\* word and a citation, one with a citation, and one of 23 words with an
\* action verb
\* ------------------------------------------------------------------------

MaxClassLines == 3

ClFix == <<"F","i","x"," ","t","h","e"," ","b","u","g">>

ClRename == <<"R","e","n","a","m","e"," ","i","t">>

ClPytest == <<"R","u","n"," ","p","y","t","e","s","t">>

ClNpm == <<"n","p","m"," ","t","e","s","t">>

ClMakeCite == <<"R","u","n"," ","m","a","k","e"," ","(","a",".","p","y",":"," ","1","-","2",")">>

ClNoteCite == <<"N","o","t","e"," ","(","a",".","p","y",":"," ","1","-","2",")">>

ClSeeCite == <<"S","e","e"," ","(","a",".","p","y",":"," ","1","-","2",")">>

ClLongFix ==
  <<"f","i","x"," ","a"," ","a"," ","a"," ","a"," ","a"," ","a"," ","a"," ","a"," ","a"," ","a"," ","a"," ","a"," ","a"," ","a"," ","a"," ","a"," ","a"," ","a"," ","a"," ","a"," ","a"," ","a">>

ClassLines == {ClFix, ClRename, ClPytest, ClNpm, ClMakeCite, ClNoteCite, ClSeeCite, ClLongFix}

\* the texts of at most n of these lines
RECURSIVE ClassTexts(_)
ClassTexts(n) ==
  IF n = 0 THEN {<< >>}
  ELSE LET shorter == ClassTexts(n - 1)
       IN shorter \cup {WithBlock(t, l) : t \in shorter, l \in ClassLines}

ClassInit ==
  /\ genText \in ClassTexts(MaxClassLines)
  /\ genJson = ParseError
  /\ normStage = "input"
  /\ normDoc = None
  /\ PipeInit
  /\ UpsertIdle
  /\ MoreIdle

ClassNext ==
  \/ NormalizeText
  \/ NormalizeFallback

SpecClass == ClassInit /\ [][ClassNext]_vars

\* ------------------------------------------------------------------------
\* The request pipeline: build_repo_pack (repopack.py) and starter_kit._work
\* (routes.py), one request at a time
\* ------------------------------------------------------------------------

\* set by the environment (default 20)
REPO_CACHE_MAX == 2

\* set by the environment (default 3600), in ticks of the model's clock
HINTS_CACHE_TTL == 1

MaxRequests == 3

MaxClock == 1

\* the title of the issue a request resolves
IssueTitle == <<"T">>

\* what the Text Generation Service returns in the pipeline: the text and what
\* json.loads makes of its brace block
NoOutput == [text |-> << >>, js |-> ParseError]

GenOutputs ==
  {NoOutput,
   [text |-> LnGotchas \o <<"\n">> \o LnFix, js |-> ParseError],
   [text |-> JsonRaw, js |-> Obj([k \in {"gotchas"} |-> List(<<LnFix>>)])]}

\* what retrieve_chunks_for_hints can return for a filled collection
FoundChunks == {<< >>, <<"chunk">>}

\* the keys of the dict
PackKeys(packs) == {packs[i] : i \in 1..Len(packs)}

\* no eviction at all
EvictNothing(packs) == packs

\* an eviction that takes the entry stored last
EvictNewest(packs) ==
  IF Len(packs) > REPO_CACHE_MAX THEN SubSeq(packs, 1, Len(packs) - 1) ELSE packs

\* _evict_if_needed: over the maximum, the first key in iteration order goes
_evict_if_needed(packs) ==
  IF Len(packs) > REPO_CACHE_MAX THEN Tail(packs) ELSE packs

\* _REPO_PACKS[key] = pack: a new key goes last, a present key keeps its place
StorePack(packs, key) == IF key \in PackKeys(packs) THEN packs ELSE Append(packs, key)

\* get_or_create_collection on the state of a collection
Created(c) == IF c = "absent" THEN "empty" ELSE c

\* f"{owner}/{repo} #{number}"
RouteTitle(number) == <<"o", "/", "r", " ", "#">> \o (IF number = 1 THEN <<"1">> ELSE <<"2">>)

\* f"hints::{pack['repo_key']}::#{issue.get('number')}"
CacheKey(key, number) == <<"hints", key, number>>

\* d without the key k
Without(d, k) == [x \in DOMAIN d \ {k} |-> d[x]]

\* cached_data.get("hints_fallback", False)
FallbackFlag(data) == IF "hints_fallback" \in DOMAIN data THEN data.hints_fallback ELSE FALSE

\* what the lookup at time t finds under ck
EntryKind(cache, ck, t) ==
  IF ck \notin DOMAIN cache THEN "absent"
  ELSE IF FallbackFlag(cache[ck].data)
       THEN (IF t < cache[ck].expires_at THEN "fallback" ELSE "fallback expired")
       ELSE (IF t < cache[ck].expires_at THEN "fresh" ELSE "expired")

\* a lookup that serves every entry within its TTL
CacheLookupFresh(cache, ck, t) ==
  IF ck \notin DOMAIN cache THEN [hints |-> None, cache |-> cache]
  ELSE IF t < cache[ck].expires_at
       THEN [hints |-> cache[ck].data.hints, cache |-> cache]
       ELSE [hints |-> None, cache |-> Without(cache, ck)]

\* lines 411-420: the hints served from the cache (None on a miss) and the
\* cache afterwards
CacheLookup(cache, ck, t) ==
  IF ck \notin DOMAIN cache THEN [hints |-> None, cache |-> cache]
  ELSE IF t < cache[ck].expires_at /\ ~FallbackFlag(cache[ck].data)
       THEN [hints |-> cache[ck].data.hints, cache |-> cache]
       ELSE [hints |-> None, cache |-> Without(cache, ck)]

\* a retrieval whose timeout is not caught
RetrievalFatal(outcome, found) ==
  IF outcome = "ok" THEN [raised |-> FALSE, chunks |-> found]
  ELSE [raised |-> TRUE, chunks |-> << >>]

\* lines 398-404: the retrieval finished, ran out of time (caught: no
\* chunks) or raised something else (not caught)
RetrievalResult(outcome, found) ==
  IF outcome = "ok" THEN [raised |-> FALSE, chunks |-> found]
  ELSE IF outcome = "timeout" THEN [raised |-> FALSE, chunks |-> << >>]
  ELSE [raised |-> TRUE, chunks |-> << >>]

\* a generation step that also falls back when the JSON stage yields nothing
GenerationStrict(outcome, raw_text, js, title) ==
  IF outcome = "ok" /\ _parse_llm_json(raw_text, js) # None
  THEN [hints |-> _parse_llm_json(raw_text, js), fallback |-> FALSE]
  ELSE [hints |-> _fallback_hints(title), fallback |-> TRUE]

\* lines 427-440: the hints and the fallback flag after generate_hints_text
\* returned raw_text, raised or timed out
GenerationResult(outcome, raw_text, js, title) ==
  IF outcome = "ok"
  THEN [hints |-> HintsFromText(raw_text, js), fallback |-> FALSE]
  ELSE [hints |-> _fallback_hints(title), fallback |-> TRUE]

\* a request that goes from the build straight to the cache lookup
StepSkipRetrieval == "lookup"

\* lines 371-400: after build_repo_pack returns, the next await is the retrieval
StepAfterBuild == "retrieve"

\* the response of line 457
Response(hints, fallback) ==
  [status |-> 200, error |-> "", hints |-> hints, hints_fallback |-> fallback]

\* the response of lines 467-471
Failure(cause) == [status |-> 500, error |-> cause, hints |-> None, hints_fallback |-> FALSE]

\* the response of lines 458-466
TimeoutResponse(number) ==
  [status |-> 200, error |-> "starter_kit_timeout",
   hints |-> _fallback_hints(RouteTitle(number)), hints_fallback |-> TRUE]

\* the response of lines 367-368
BadRequestResponse ==
  [status |-> 400, error |-> "owner, repo, number are required", hints |-> None,
   hints_fallback |-> FALSE]

\* a request arrives with well-formed parameters: lines 363-371
StartRequest ==
  /\ pc \in {"idle", "done"}
  /\ nReq < MaxRequests
  /\ \E n \in Issues : rq' = [NoRequest EXCEPT !.number = n]
  /\ pc' = "resolve"
  /\ out' = NoResponse
  /\ nReq' = nReq + 1
  /\ UNCHANGED <<_REPO_PACKS, _HINTS_CACHE, collections, now, nBuilt, served, normVars, upVars, moreVars>>

\* a request arrives with a parameter missing or a number that is no number:
\* lines 367-368
BadRequest ==
  /\ pc \in {"idle", "done"}
  /\ nReq < MaxRequests
  /\ rq' = NoRequest
  /\ pc' = "done"
  /\ out' = BadRequestResponse
  /\ nReq' = nReq + 1
  /\ UNCHANGED <<_REPO_PACKS, _HINTS_CACHE, collections, now, nBuilt, served, normVars, upVars, moreVars>>

\* _get_repo_sha_and_issue raises: the issue is absent, or no commit resolves
ResolveFails ==
  /\ pc = "resolve"
  /\ \E cause \in {"NotFound", "Unresolvable"} : out' = Failure(cause)
  /\ pc' = "done"
  /\ UNCHANGED <<_REPO_PACKS, _HINTS_CACHE, collections, now, rq, nReq, nBuilt, served, normVars, upVars, moreVars>>

\* the key is resolved and the snapshot cache holds it: lines 185-193
ResolveHit ==
  /\ pc = "resolve"
  /\ \E k \in PackKeys(_REPO_PACKS) :
       rq' = [rq EXCEPT !.key = k, !.title = IssueTitle, !.build = "hit"]
  /\ pc' = StepAfterBuild
  /\ UNCHANGED <<_REPO_PACKS, _HINTS_CACHE, collections, now, out, nReq, nBuilt, served, normVars, upVars, moreVars>>

\* the key is resolved and the snapshot cache does not hold it: lines 185-196
ResolveMiss ==
  /\ pc = "resolve"
  /\ \E k \in Keys \ PackKeys(_REPO_PACKS) :
       rq' = [rq EXCEPT !.key = k, !.title = IssueTitle]
  /\ pc' = "tree"
  /\ UNCHANGED <<_REPO_PACKS, _HINTS_CACHE, collections, now, out, nReq, nBuilt, served, normVars, upVars, moreVars>>

\* _list_tree returns: an empty tree raises, lines 196-198
ListTree ==
  /\ pc = "tree"
  /\ \/ out' = Failure("EmptyTree") /\ pc' = "done"
     \/ out' = out /\ pc' = "fetch"
  /\ UNCHANGED <<_REPO_PACKS, _HINTS_CACHE, collections, now, rq, nReq, nBuilt, served, normVars, upVars, moreVars>>

\* the fetch loop of lines 206-240: a file whose fetch fails or that is over
\* budget is skipped, so the loop ends with some chunks or with none
FetchFiles ==
  /\ pc = "fetch"
  /\ \E f \in BOOLEAN : rq' = [rq EXCEPT !.fetched = f]
  /\ pc' = "upsert"
  /\ UNCHANGED <<_REPO_PACKS, _HINTS_CACHE, collections, now, out, nReq, nBuilt, served, normVars, upVars, moreVars>>

\* upsert_chunks raises: the Embedding Service fails on a sub-chunk
\* (embeddings.py 32-51, vectordb.py 71); nothing catches it before line 467
UpsertRaises ==
  /\ pc = "upsert"
  /\ rq.fetched
  /\ collections' = [collections EXCEPT ![rq.key] = Created(@)]
  /\ out' = Failure("EmbeddingError")
  /\ pc' = "done"
  /\ UNCHANGED <<_REPO_PACKS, _HINTS_CACHE, now, rq, nReq, nBuilt, served, normVars, upVars, moreVars>>

\* upsert_chunks returns, with sub-chunks stored or (no text, or only empty
\* vectors) with none; the pack is stored and the cache trimmed: lines 245-252
UpsertAndStore ==
  /\ pc = "upsert"
  /\ \E stored \in BOOLEAN :
       /\ stored => rq.fetched
       /\ collections' = [collections EXCEPT ![rq.key] = IF stored THEN "filled" ELSE Created(@)]
  /\ _REPO_PACKS' = _evict_if_needed(StorePack(_REPO_PACKS, rq.key))
  /\ rq' = [rq EXCEPT !.build = "cold", !.sizeBefore = Len(_REPO_PACKS),
                      !.events = Append(@, "ingest")]
  /\ nBuilt' = nBuilt + 1
  /\ pc' = StepAfterBuild
  /\ UNCHANGED <<_HINTS_CACHE, now, out, nReq, served, normVars, upVars, moreVars>>

\* the retrieval of lines 397-404 ends: with chunks, by its timeout, or with
\* the Embedding Service failing on the query (vectordb.py 90-92: the query is
\* embedded only for a collection that holds something)
Retrieve ==
  /\ pc = "retrieve"
  /\ \E outcome \in {"ok", "timeout", "raise"} : \E found \in FoundChunks :
       /\ outcome = "raise" => collections[rq.key] = "filled"
       /\ found # << >> => outcome = "ok" /\ collections[rq.key] = "filled"
       /\ LET r == RetrievalResult(outcome, found)
          IN IF r.raised
             THEN /\ rq' = [rq EXCEPT !.retr = outcome]
                  /\ out' = Failure("EmbeddingError")
                  /\ pc' = "done"
             ELSE /\ rq' = [rq EXCEPT !.retr = outcome, !.chunks = r.chunks,
                                      !.events = Append(@, "query")]
                  /\ out' = out
                  /\ pc' = "lookup"
  /\ UNCHANGED <<_REPO_PACKS, _HINTS_CACHE, collections, now, nReq, nBuilt, served, normVars, upVars, moreVars>>

\* lines 407-428: the guidance cache is looked up; on a hit the request
\* returns, on a miss the prompt is built and generate_hints_text is called
Lookup ==
  /\ pc = "lookup"
  /\ LET r == CacheLookup(_HINTS_CACHE, CacheKey(rq.key, rq.number), now)
     IN /\ _HINTS_CACHE' = r.cache
        /\ IF r.hints # None
           THEN /\ rq' = [rq EXCEPT !.cached = TRUE,
                                    !.entry = EntryKind(_HINTS_CACHE, CacheKey(rq.key, rq.number), now)]
                /\ out' = Response(r.hints, FALSE)
                /\ pc' = "done"
           ELSE /\ rq' = [rq EXCEPT !.prompt = [built |-> TRUE, chunks |-> rq.chunks],
                                    !.gen = "called",
                                    !.entry = EntryKind(_HINTS_CACHE, CacheKey(rq.key, rq.number), now),
                                    !.events = @ \o <<"prompt", "generate">>]
                /\ out' = out
                /\ pc' = "generate"
  /\ UNCHANGED <<_REPO_PACKS, collections, now, nReq, nBuilt, served, normVars, upVars, moreVars>>

\* the request returns the result res of the generation step: lines 444-457
Finish(res, outcome) ==
  /\ rq' = [rq EXCEPT !.gen = outcome]
  /\ out' = Response(res.hints, res.fallback)
  /\ pc' = "done"
  /\ served' = IF res.fallback THEN served
               ELSE [key |-> rq.key, number |-> rq.number, at |-> now]

\* generate_hints_text returns a text, raises, or runs into LLM_TIMEOUT_SECS;
\* the request returns what lines 428-440 make of it
Generate ==
  /\ pc = "generate"
  /\ \E outcome \in {"ok", "raise", "timeout"} : \E g \in GenOutputs :
       /\ outcome # "ok" => g = NoOutput
       /\ \E res \in {GenerationResult(outcome, g.text, g.js, rq.title)} : Finish(res, outcome)
  /\ UNCHANGED <<_REPO_PACKS, _HINTS_CACHE, collections, now, nReq, nBuilt, normVars, upVars, moreVars>>

\* STARTER_KIT_ROUTE_TIMEOUT_SECS runs out while _work waits: lines 456-466
RouteTimeout ==
  /\ pc \in {"resolve", "tree", "fetch", "retrieve", "generate"}
  /\ out' = TimeoutResponse(rq.number)
  /\ pc' = "done"
  /\ UNCHANGED <<_REPO_PACKS, _HINTS_CACHE, collections, now, rq, nReq, nBuilt, served, normVars, upVars, moreVars>>

\* time passes between two requests
ClockTick ==
  /\ pc \in {"idle", "done"}
  /\ now < MaxClock
  /\ now' = now + 1
  /\ UNCHANGED <<_REPO_PACKS, _HINTS_CACHE, collections, pc, rq, out, nReq, nBuilt, served, normVars, upVars, moreVars>>

Next ==
  \/ StartRequest
  \/ BadRequest
  \/ ResolveFails
  \/ ResolveHit
  \/ ResolveMiss
  \/ ListTree
  \/ FetchFiles
  \/ UpsertRaises
  \/ UpsertAndStore
  \/ Retrieve
  \/ Lookup
  \/ Generate
  \/ RouteTimeout
  \/ ClockTick

Init == PipeInit /\ NormIdle /\ UpsertIdle /\ MoreIdle

Spec == Init /\ [][Next]_vars

\* ------------------------------------------------------------------------
\* The guidance cache lookup (routes.py 409-420) on given cache contents.
\* No statement of the program writes _HINTS_CACHE, so in Spec the cache stays
\* empty; here the lookup step is run on caches drawn from a bounded set.
\* ------------------------------------------------------------------------

\* a document an earlier request could have cached
SeedDoc ==
  [high_level_goal |-> Str(LnFixLower), where_to_work |-> List(<< >>),
   what_to_change |-> List(<<LnFixLower>>), how_to_verify |-> List(<< >>),
   gotchas |-> List(<< >>)]

\* the (expires_at, cached_data) pairs of the drawn caches: generated guidance
\* with the flag off or missing, and the static fallback with the flag on
SeedEntries ==
  {[expires_at |-> e, data |-> d] :
     e \in 0..(MaxClock + 1),
     d \in {[hints |-> SeedDoc, hints_fallback |-> FALSE],
            [hints |-> SeedDoc],
            [hints |-> _fallback_hints(IssueTitle), hints_fallback |-> TRUE]}}

SeedKey == "o/r1@s1"

\* the caches over the keys of the two issues of one snapshot
SeedCaches ==
  LET cks == {CacheKey(SeedKey, n) : n \in Issues}
  IN UNION {[D -> SeedEntries] : D \in SUBSET cks}

\* a request at line 409, its retrieval done, with a drawn cache and clock
LookupInit ==
  /\ _REPO_PACKS = <<SeedKey>>
  /\ _HINTS_CACHE \in SeedCaches
  /\ collections = [k \in Keys |-> IF k = SeedKey THEN "filled" ELSE "absent"]
  /\ now \in 0..MaxClock
  /\ pc = "lookup"
  /\ \E n \in Issues :
       rq = [NoRequest EXCEPT !.key = SeedKey, !.number = n, !.title = IssueTitle,
                              !.build = "hit", !.retr = "ok", !.events = <<"query">>]
  /\ out = NoResponse
  /\ nReq = 1
  /\ nBuilt = 1
  /\ served = NeverServed
  /\ NormIdle
  /\ UpsertIdle
  /\ MoreIdle

LookupNext == Lookup \/ Generate

SpecLookup == LookupInit /\ [][LookupNext]_vars

\* ------------------------------------------------------------------------
\* upsert_chunks (vectordb.py) with _split_text (embeddings.py), called twice
\* on one snapshot key with the same chunks.  The size limits are scaled down
\* so that short texts are over them.
\* ------------------------------------------------------------------------

MAX_EMBED_CHARS == 3

MAX_SUBCHUNKS_PER_REPO == 3

MaxChunks == 2

\* chunk texts: one sub-chunk; over the limit with no line end (cut at the
\* limit); blank; a line end, then a rest within the limit; a line end, then a
\* rest over the limit
TextPool ==
  {<<"a", "b">>, <<"a", "b", "c", "d">>, <<" ", " ">>, <<"a", "\n", "b", "c">>,
   <<"a", "\n", "b", "c", "d">>}

\* the chunks of a pack: no two of the same path and line range
ChunkPool ==
  {[path |-> "a.py", start_line |-> 1, end_line |-> 2, kind |-> "code", symbol |-> "f",
     text |-> t] : t \in TextPool}
    \cup {[path |-> "b.md", start_line |-> 1, end_line |-> 1, kind |-> "doc",
            symbol |-> "", text |-> t] : t \in TextPool}
    \cup {[path |-> "tests/c.py", start_line |-> 3, end_line |-> 9, kind |-> "code",
            symbol |-> "", text |-> t] : t \in TextPool}

ChunkLists ==
  {cs \in UNION {[1..n -> ChunkPool] : n \in 0..MaxChunks} :
     \A i \in DOMAIN cs : \A j \in DOMAIN cs : i # j => cs[i].path # cs[j].path}

\* an id that also tells the call that made it
SubIdPerCall(c, idx) == <<c.path, c.start_line, c.end_line, idx, upCall>>

\* f"{c['path']}#{c['start_line']}-{c['end_line']}::{idx}"
SubId(c, idx) == <<c.path, c.start_line, c.end_line, idx>>

\* the metadata stored with a sub-chunk: vectordb.py 59-65
MetaOf(c) ==
  [path |-> c.path, start_line |-> c.start_line, end_line |-> c.end_line, kind |-> c.kind,
   symbol |-> c.symbol]

\* a collection that keeps only the rows of the last call
CollReplace(store, ids, rows, kept, call) ==
  [id \in {ids[i] : i \in kept} |->
     LET i == CHOOSE j \in kept : ids[j] = id
     IN [doc |-> rows[i].doc, meta |-> rows[i].meta, emb |-> call]]

\* coll.upsert of the rows numbered in kept: a row is written under each of
\* their ids and every other row stays; the vector of a row is told by the
\* call that asked for it
CollUpsert(store, ids, rows, kept, call) ==
  [id \in DOMAIN store \cup {ids[i] : i \in kept} |->
     IF \E j \in kept : ids[j] = id
     THEN LET i == CHOOSE j \in kept : ids[j] = id
          IN [doc |-> rows[i].doc, meta |-> rows[i].meta, emb |-> call]
     ELSE store[id]]

\* text.rfind("\n", 0, max_len), as a count of the characters before it; -1
\* when there is none
RFindNewline(text, max_len) ==
  LET hits == {i \in 1..max_len : i <= Len(text) /\ text[i] = "\n"}
  IN IF hits = {} THEN -1
     ELSE (CHOOSE i \in hits : \A j \in hits : j <= i) - 1

\* where one round of the loop of _split_text cuts: lines 20-22
SplitAt(text, max_len) ==
  IF RFindNewline(text, max_len) = -1 THEN max_len ELSE RFindNewline(text, max_len)

\* the element of a set of one; such sets bind a value that is used several
\* times below
Only(S) == CHOOSE x \in S : TRUE

\* the loop of _split_text from its head, chunks being the parts gathered so
\* far: embeddings.py 19-30.  A cut at 0 leaves the text as it is, so the loop
\* does not end and the call does not return.
RECURSIVE SplitChunks(_, _, _)
SplitChunks(text, max_len, chunks) ==
  Only({IF Len(t) <= max_len
        THEN [returns |-> TRUE,
              chunks |-> IF Strip(t) # << >> THEN Append(c, Strip(t)) ELSE c]
        ELSE IF at = 0
             THEN [returns |-> FALSE, chunks |-> c]
             ELSE SplitChunks(Drop(t, at), max_len,
                              IF Strip(Take(t, at)) # << >>
                              THEN Append(c, Strip(Take(t, at)))
                              ELSE c) :
        t \in {text}, c \in {chunks}, at \in {SplitAt(text, max_len)}})

\* embeddings.py 16-30
_split_text(text, max_len) == SplitChunks(text, max_len, << >>)

\* the content _embed_one passes to genai.embed_content, or the ValueError
\* before it: embeddings.py 33-38
_embed_one(text) ==
  [raises |-> Strip(text) = << >>, content |-> Take(Strip(text), MAX_EMBED_CHARS)]

\* the contents passed for the chunks of one text, up to the first that raises
EmbedChunks(chunks) ==
  LET bad == {j \in DOMAIN chunks : _embed_one(chunks[j]).raises}
      n == IF bad = {} THEN Len(chunks) ELSE (CHOOSE j \in bad : \A k \in bad : j <= k) - 1
  IN [raises |-> bad # {}, handed |-> [j \in 1..n |-> _embed_one(chunks[j]).content]]

\* embeddings.py 58-60 for one text: nothing is passed when _split_text does
\* not return
EmbedText(t) ==
  Only({IF split.returns
        THEN [returns |-> ~EmbedChunks(split.chunks).raises,
              handed |-> EmbedChunks(split.chunks).handed]
        ELSE [returns |-> FALSE, handed |-> << >>] :
        split \in {_split_text(t, MAX_EMBED_CHARS)}})

\* a variant of embed_texts that passes every text on as it is given
EmbedTextsAsGiven(texts) == [returns |-> TRUE, handed |-> texts]

\* the loop of embed_texts from the i-th text, handed being the contents
\* passed to the service so far: embeddings.py 53-61
RECURSIVE EmbedFrom(_, _, _)
EmbedFrom(texts, i, handed) ==
  IF i > Len(texts) THEN [returns |-> TRUE, handed |-> handed]
  ELSE Only({IF t = << >> THEN EmbedFrom(ts, i + 1, h)
             ELSE IF ~r.returns THEN [returns |-> FALSE, handed |-> h \o r.handed]
             ELSE EmbedFrom(ts, i + 1, h \o r.handed) :
             ts \in {texts}, h \in {handed}, t \in {Strip(texts[i])},
             r \in {EmbedText(Strip(texts[i]))}})

\* embeddings.py 53-61 when the service answers every call
embed_texts(texts) == EmbedFrom(texts, 1, << >>)

\* the texts of a query: the title of the issue, a line end, and its body
\* (repopack.py 289).  No title and no body; a title alone; both within the
\* limit after the cut; a title over the limit; a body over the limit
QueryPool ==
  {<<"\n">>, <<"a", "\n">>, <<"a", "b", "\n", "c">>, <<"a", "b", "c", "d", "\n">>,
   <<"a", "\n", "b", "c", "d">>}

\* the first call starts on a list of chunks
UpsertInit ==
  /\ upChunks \in ChunkLists
  /\ upCall = 1
  /\ upPhase = "loop"
  /\ upIdx = 1
  /\ upText = << >>
  /\ upParts = << >>
  /\ upSub = 0
  /\ upIds = << >>
  /\ upExpired = FALSE
  /\ upColl = {}
  /\ upFirst = [count |-> 0, ids |-> {}, full |-> FALSE]
  /\ upKept = {}
  /\ upRows = << >>
  /\ upStore = << >>
  /\ upBefore = << >>
  /\ upEmbed = NoEmbed
  /\ NormIdle
  /\ PipeInit
  /\ MoreIdle

\* the wall clock passes t0 + MAX_EMBED_SECONDS while the loops run
DeadlinePasses ==
  /\ upPhase \in {"loop", "split", "subs"}
  /\ ~upExpired
  /\ upExpired' = TRUE
  /\ UNCHANGED <<upChunks, upCall, upPhase, upIdx, upText, upParts, upSub, upIds, upColl,
                 upFirst, upKept, upRows, upStore, upBefore, upEmbed, normVars, pipeVars, moreVars>>

\* the head of the loop over the chunks: vectordb.py 44-52
ChunkLoop ==
  /\ upPhase = "loop"
  /\ IF upIdx > Len(upChunks) \/ Len(upIds) >= MAX_SUBCHUNKS_PER_REPO \/ upExpired
     THEN upPhase' = "embed" /\ UNCHANGED <<upIdx, upText>>
     ELSE IF Strip(upChunks[upIdx].text) = << >>
          THEN upIdx' = upIdx + 1 /\ UNCHANGED <<upPhase, upText>>
          ELSE /\ upPhase' = "split"
               /\ upText' = Strip(upChunks[upIdx].text)
               /\ upIdx' = upIdx
  /\ upParts' = << >>
  /\ UNCHANGED <<upChunks, upCall, upSub, upIds, upExpired, upColl, upFirst, upKept,
                 upRows, upStore, upBefore, upEmbed, normVars, pipeVars, moreVars>>

\* one round of the loop of _split_text: embeddings.py 19-26
SplitRound ==
  /\ upPhase = "split"
  /\ Len(upText) > MAX_EMBED_CHARS
  /\ \E at \in {SplitAt(upText, MAX_EMBED_CHARS)} :
       /\ upParts' = IF Strip(Take(upText, at)) # << >>
                     THEN Append(upParts, Strip(Take(upText, at)))
                     ELSE upParts
       /\ upText' = Drop(upText, at)
  /\ UNCHANGED <<upChunks, upCall, upPhase, upIdx, upSub, upIds, upExpired, upColl, upFirst,
                 upKept, upRows, upStore, upBefore, upEmbed, normVars, pipeVars, moreVars>>

\* the loop of _split_text ends and the tail is added: embeddings.py 27-30
SplitReturn ==
  /\ upPhase = "split"
  /\ Len(upText) <= MAX_EMBED_CHARS
  /\ upParts' = IF Strip(upText) # << >> THEN Append(upParts, Strip(upText)) ELSE upParts
  /\ upText' = << >>
  /\ upSub' = 0
  /\ upPhase' = "subs"
  /\ UNCHANGED <<upChunks, upCall, upIdx, upIds, upExpired, upColl, upFirst, upKept,
                 upRows, upStore, upBefore, upEmbed, normVars, pipeVars, moreVars>>

\* one round of the loop over the sub-chunks of a chunk: vectordb.py 53-66
SubChunkLoop ==
  /\ upPhase = "subs"
  /\ IF upSub >= Len(upParts) \/ Len(upIds) >= MAX_SUBCHUNKS_PER_REPO \/ upExpired
     THEN /\ upPhase' = "loop"
          /\ upIdx' = upIdx + 1
          /\ UNCHANGED <<upSub, upIds, upRows>>
     ELSE /\ upIds' = Append(upIds, SubId(upChunks[upIdx], upSub))
          /\ upRows' = Append(upRows, [doc |-> upParts[upSub + 1],
                                       meta |-> MetaOf(upChunks[upIdx])])
          /\ upSub' = upSub + 1
          /\ UNCHANGED <<upPhase, upIdx>>
  /\ UNCHANGED <<upChunks, upCall, upText, upParts, upExpired, upColl, upFirst, upKept,
                 upStore, upBefore, upEmbed, normVars, pipeVars, moreVars>>

\* the call ends having stored the ids in kept; complete tells that it was
\* not cut short and lost no sub-chunk
UpsertEnds(kept, complete) ==
  /\ upColl' = upColl \cup kept
  /\ upKept' = kept
  /\ upFirst' = IF upCall = 1
                THEN [count |-> Cardinality(upColl \cup kept), ids |-> kept, full |-> complete]
                ELSE upFirst
  /\ upPhase' = "done"

\* vectordb.py 68-85: nothing to embed; or embed_texts raises at one of the
\* sub-chunks (_embed_one lets the error of the service through, or raises on
\* a response it cannot read: embeddings.py 32-51) and nothing is upserted; or
\* every sub-chunk gets a vector, an empty one for those of lost, and the
\* ones with a non-empty vector are upserted
EmbedAndUpsert ==
  /\ upPhase = "embed"
  /\ \E sent \in {embed_texts([i \in DOMAIN upRows |-> upRows[i].doc]).handed} :
       \/ /\ upIds = << >>
          /\ UpsertEnds({}, ~upExpired)
          /\ upStore' = upStore
          /\ upEmbed' = NoEmbed
       \/ /\ upIds # << >>
          /\ UpsertEnds({}, FALSE)
          /\ upStore' = upStore
          /\ \E at \in 1..Len(upIds) :
               upEmbed' = [lost |-> {at}, raised |-> TRUE, handed |-> Take(sent, at)]
       \/ /\ upIds # << >>
          /\ \E lost \in SUBSET (1..Len(upIds)) :
               /\ UpsertEnds({upIds[i] : i \in (1..Len(upIds)) \ lost},
                             lost = {} /\ ~upExpired)
               /\ upStore' = IF lost = 1..Len(upIds)
                             THEN upStore
                             ELSE CollUpsert(upStore, upIds, upRows, (1..Len(upIds)) \ lost,
                                             upCall)
               /\ upEmbed' = [lost |-> lost, raised |-> FALSE, handed |-> sent]
  /\ UNCHANGED <<upChunks, upCall, upIdx, upText, upParts, upSub, upIds, upExpired, upRows,
                 upBefore, normVars, pipeVars, moreVars>>

\* upsert_chunks is called again with the same chunks: vectordb.py 38-42
SecondCall ==
  /\ upPhase = "done"
  /\ upCall = 1
  /\ upCall' = 2
  /\ upPhase' = "loop"
  /\ upIdx' = 1
  /\ upIds' = << >>
  /\ upExpired' = FALSE
  /\ upKept' = {}
  /\ upRows' = << >>
  /\ upBefore' = upStore
  /\ upEmbed' = NoEmbed
  /\ UNCHANGED <<upChunks, upText, upParts, upSub, upColl, upFirst, upStore, normVars,
                 pipeVars, moreVars>>

\* query_topk on the collection after a call of upsert_chunks: vectordb.py
\* 88-94.  Nothing is embedded for an empty collection; else the query text
\* goes through embed_texts, which returns, raises at one of its calls of the
\* service, or does not return
QueryTopk ==
  /\ upPhase = "done"
  /\ IF upColl = {}
     THEN upPhase' = "queried" /\ upEmbed' = [upEmbed EXCEPT !.handed = << >>]
     ELSE \E query_text \in QueryPool :
            \E q_vecs \in {embed_texts(<<query_text>>)} :
              \E n \in IF q_vecs.handed = << >> THEN {0} ELSE 1..Len(q_vecs.handed) :
                /\ upPhase' = IF q_vecs.returns THEN "queried" ELSE "query"
                /\ upEmbed' = [upEmbed EXCEPT !.handed = Take(q_vecs.handed, n)]
  /\ UNCHANGED <<upChunks, upCall, upIdx, upText, upParts, upSub, upIds, upExpired, upColl,
                 upFirst, upKept, upRows, upStore, upBefore, normVars, pipeVars, moreVars>>

\* the steps of the calls of upsert_chunks
IngestNext ==
  \/ DeadlinePasses
  \/ ChunkLoop
  \/ SplitRound
  \/ SplitReturn
  \/ SubChunkLoop
  \/ EmbedAndUpsert
  \/ SecondCall

UpsertNext ==
  \/ IngestNext
  \/ QueryTopk

SpecUpsert == UpsertInit /\ [][UpsertNext]_vars

\* upsert_chunks runs in one thread: whatever step of the call can be taken
\* is taken in the end.  Nothing makes the deadline pass or a second call
\* come, and the queries that may follow a call are left aside.
UpsertFair ==
  /\ WF_vars(ChunkLoop)
  /\ WF_vars(SplitRound)
  /\ WF_vars(SplitReturn)
  /\ WF_vars(SubChunkLoop)
  /\ WF_vars(EmbedAndUpsert)

SpecUpsertLive == UpsertInit /\ [][IngestNext]_vars /\ UpsertFair

\* what each of the parts checked on its own leaves alone, and the rest at
\* rest
retrFrame == <<normVars, pipeVars, upVars, chunkVars, buildVars, idemVars, packVars, raceVars>>

chunkFrame == <<normVars, pipeVars, upVars, retrVars, buildVars, idemVars, packVars, raceVars>>

buildFrame == <<normVars, pipeVars, upVars, retrVars, chunkVars, idemVars, packVars, raceVars>>

idemFrame == <<normVars, pipeVars, upVars, retrVars, chunkVars, buildVars, packVars, raceVars>>

packFrame == <<normVars, pipeVars, upVars, retrVars, chunkVars, buildVars, idemVars, raceVars>>

raceFrame == <<normVars, pipeVars, upVars, retrVars, chunkVars, buildVars, idemVars, packVars>>

RetrRestIdle ==
  NormIdle /\ PipeInit /\ UpsertIdle /\ ChunkIdle /\ BuildIdle /\ IdemIdle /\ PackIdle
    /\ RaceIdle

ChunkRestIdle ==
  NormIdle /\ PipeInit /\ UpsertIdle /\ RetrIdle /\ BuildIdle /\ IdemIdle /\ PackIdle
    /\ RaceIdle

BuildRestIdle ==
  NormIdle /\ PipeInit /\ UpsertIdle /\ RetrIdle /\ ChunkIdle /\ IdemIdle /\ PackIdle
    /\ RaceIdle

IdemRestIdle ==
  NormIdle /\ PipeInit /\ UpsertIdle /\ RetrIdle /\ ChunkIdle /\ BuildIdle /\ PackIdle
    /\ RaceIdle

PackRestIdle ==
  NormIdle /\ PipeInit /\ UpsertIdle /\ RetrIdle /\ ChunkIdle /\ BuildIdle /\ IdemIdle
    /\ RaceIdle

RaceRestIdle ==
  NormIdle /\ PipeInit /\ UpsertIdle /\ RetrIdle /\ ChunkIdle /\ BuildIdle /\ IdemIdle
    /\ PackIdle

\* ------------------------------------------------------------------------
\* retrieve_chunks_for_hints (repopack.py), run on a list of candidates as
\* query_topk returns them.  Distances and similarities are counted in units
\* of 0.0001, so that round(sim, 3) has something to round.  No value in the
\* pools ends in 5: which way round() takes a tie depends on the float.
\* ------------------------------------------------------------------------

\* 1.0 in units of 0.0001
Unit == 10000

MaxCand == 3

\* "score" of a candidate that has none
NoScore == -1

\* distances: none; near; just within and just beyond 1 - 0.35; more than 1
ScorePool == {NoScore, 2000, 6496, 6504, 12000}

\* the candidates of the index: "" stands for a missing path
CandPool == [path : {"a.py", "b.md", ""}, score : ScorePool]

KPool == {1, 2}

\* thresholds: none, the route's 0.35, and one between two thousandths
MinSimPool == {0, 3500, 3502}

\* sim of lines 295-300: 0 without a score, else max(0.0, 1.0 - score)
SimOf(c) == IF c.score = NoScore THEN 0 ELSE IF Unit - c.score > 0 THEN Unit - c.score ELSE 0

\* round(sim, 3): the nearest multiple of 0.001
Round3(x) == ((x + 5) \div 10) * 10

\* a test that lets every candidate with a path through
SkipsNoPath(c, m) == c.path = ""

\* line 303: the candidate is passed over
Skips(c, m) == c.path = "" \/ SimOf(c) < m

\* whether a path is a key of by_path
HasPath(items, p) == \E i \in DOMAIN items : items[i].path = p

\* as PutByPath, with a later candidate of a path taking the place of the
\* one kept
PutByPathLast(items, c) ==
  IF HasPath(items, c.path)
  THEN [i \in DOMAIN items |->
          IF items[i].path = c.path
          THEN [path |-> c.path, score |-> c.score, similarity |-> Round3(SimOf(c))]
          ELSE items[i]]
  ELSE Append(items, [path |-> c.path, score |-> c.score, similarity |-> Round3(SimOf(c))])

\* lines 305-308: the first candidate of a path is kept with its similarity
PutByPath(items, c) ==
  IF HasPath(items, c.path) THEN items
  ELSE Append(items, [path |-> c.path, score |-> c.score, similarity |-> Round3(SimOf(c))])

\* a call starts on the candidates the index returned: lines 289-292
RetrInit ==
  /\ rtRaw \in UNION {[1..n -> CandPool] : n \in 0..MaxCand}
  /\ rtK \in KPool
  /\ rtMinSim \in MinSimPool
  /\ rtIdx = 1
  /\ rtByPath = << >>
  /\ rtDone = FALSE
  /\ RetrRestIdle

\* one round of the loop over the candidates: lines 293-310
RetrieveLoop ==
  /\ ~rtDone
  /\ rtIdx <= Len(rtRaw)
  /\ IF Skips(rtRaw[rtIdx], rtMinSim)
     THEN rtIdx' = rtIdx + 1 /\ UNCHANGED <<rtByPath, rtDone>>
     ELSE /\ rtByPath' = PutByPath(rtByPath, rtRaw[rtIdx])
          /\ rtDone' = (Len(rtByPath') >= rtK)
          /\ rtIdx' = rtIdx + 1
  /\ UNCHANGED <<rtRaw, rtK, rtMinSim, retrFrame>>

\* the candidates are used up and the values of by_path are returned: line 311
RetrieveReturn ==
  /\ ~rtDone
  /\ rtIdx > Len(rtRaw)
  /\ rtDone' = TRUE
  /\ UNCHANGED <<rtRaw, rtK, rtMinSim, rtIdx, rtByPath, retrFrame>>

RetrNext == RetrieveLoop \/ RetrieveReturn

SpecRetr == RetrInit /\ [][RetrNext]_vars

\* ------------------------------------------------------------------------
\* The chunkers of repopack.py, each run on one file text.
\* ------------------------------------------------------------------------

MaxFileLines == 3

\* re.match(r"^\s*<kw>\s+(\w+)\s*<one of closers>", line): the name, from its
\* end backwards: the closer, the name, the blanks after the keyword
KwNameEnd(name, rest, closers) ==
  IF rest # << >> /\ rest[1] \in closers THEN name ELSE NoMatch

KwNameWord(c, closers) ==
  IF LeadCount(c, WordChars) = 0 THEN NoMatch
  ELSE KwNameEnd(Take(c, LeadCount(c, WordChars)),
                 LStripChars(Drop(c, LeadCount(c, WordChars)), WhiteSpace), closers)

KwNameAfter(b, closers) ==
  IF LeadCount(b, WhiteSpace) = 0 THEN NoMatch
  ELSE KwNameWord(LStripChars(b, WhiteSpace), closers)

KwName(line, kw, closers) ==
  IF StartsWith(LStripChars(line, WhiteSpace), kw)
  THEN KwNameAfter(Drop(LStripChars(line, WhiteSpace), Len(kw)), closers)
  ELSE NoMatch

\* the def pattern and the class pattern of lines 126, 135 and 136
DefName(line) == KwName(line, <<"d", "e", "f">>, {"("})

ClassName(line) == KwName(line, <<"c", "l", "a", "s", "s">>, {":", "("})

\* line 126: the line starts a chunk
PyHeader(line) == DefName(line) # NoMatch \/ ClassName(line) # NoMatch

\* lines 134-138: the class name wins when both patterns match
SymbolOf(header) ==
  IF ClassName(header) # NoMatch THEN ClassName(header)
  ELSE IF DefName(header) # NoMatch THEN DefName(header)
  ELSE << >>

\* line 151: re.match(r"^#{1,6}\s", line)
MdHeading(line) ==
  /\ LeadCount(line, {"#"}) \in 1..6
  /\ Len(line) > LeadCount(line, {"#"})
  /\ line[LeadCount(line, {"#"}) + 1] \in WhiteSpace

\* Chunk(path="", start_line=..., end_line=..., kind=..., text=..., symbol=...,
\* tags=[]); << >> stands for the symbol None
Chunk(start_line, end_line, kind, text, symbol) ==
  [path |-> << >>, start_line |-> start_line, end_line |-> end_line, kind |-> kind,
   text |-> text, symbol |-> symbol, tags |-> << >>]

\* the chunk of lines s+1..e (the slice lines[s:e]) if its stripped text is
\* not empty: lines 139-141 and 159-161
SliceChunk(lines, s, e, kind, symbol) ==
  IF Strip(JoinLines(SubSeq(lines, s + 1, e))) = << >> THEN << >>
  ELSE <<Chunk(s + 1, e, kind, Strip(JoinLines(SubSeq(lines, s + 1, e))), symbol)>>

\* the loop of lines 130-141 over the starts from index i of the line after
\* the last start taken
RECURSIVE PythonChunks(_, _, _)
PythonChunks(lines, heads, i) ==
  IF NextHeading(heads, i, Len(lines)) > Len(lines) THEN << >>
  ELSE SliceChunk(lines, NextHeading(heads, i, Len(lines)) - 1,
                  NextHeading(heads, NextHeading(heads, i, Len(lines)), Len(lines)) - 1,
                  "code", SymbolOf(Strip(lines[NextHeading(heads, i, Len(lines))])))
         \o PythonChunks(lines, heads, NextHeading(heads, i, Len(lines)))

\* lines 142-145
PythonFallback(chunks, text, lines) ==
  IF chunks = << >> /\ Strip(text) # << >>
  THEN <<Chunk(1, Len(lines), "code", text, << >>)>>
  ELSE chunks

_chunk_python(text) ==
  PythonFallback(
    PythonChunks(SplitLines(text),
                 {j \in 1..Len(SplitLines(text)) : PyHeader(SplitLines(text)[j])}, 0),
    text, SplitLines(text))

\* the loop of lines 154-161 over starts = [0] + headings + [len(lines)], from
\* the boundary s (a count of lines before it); a pair with s = e is skipped
RECURSIVE MarkdownChunks(_, _, _)
MarkdownChunks(lines, heads, s) ==
  IF s >= Len(lines) THEN << >>
  ELSE SliceChunk(lines, s, NextHeading(heads, s + 1, Len(lines)) - 1, "doc", << >>)
         \o MarkdownChunks(lines, heads, NextHeading(heads, s + 1, Len(lines)) - 1)

\* line 162
MarkdownFallback(chunks, text, lines) ==
  IF chunks # << >> THEN chunks ELSE <<Chunk(1, Len(lines), "doc", text, << >>)>>

_chunk_markdown(text) ==
  MarkdownFallback(
    MarkdownChunks(SplitLines(text),
                   {j \in 1..Len(SplitLines(text)) : MdHeading(SplitLines(text)[j])}, 0),
    text, SplitLines(text))

_chunk_plain(text, kind) == <<Chunk(1, Len(SplitLines(text)), kind, text, << >>)>>

\* the lines files are made of: a def header, an indented class header, a
\* markdown heading, a plain line, a line of blanks, an empty line
FileLines ==
  {<<"d", "e", "f", " ", "f", "(">>, <<" ", "c", "l", "a", "s", "s", " ", "A", ":">>,
   <<"#", " ", "T">>, <<"x">>, <<" ">>, << >>}

\* file texts: up to MaxFileLines lines, with or without a last line end
FileTexts ==
  LET seqs == UNION {[1..n -> FileLines] : n \in 0..MaxFileLines}
  IN {JoinLines(ls) : ls \in seqs} \cup {JoinLines(ls) \o <<"\n">> : ls \in seqs}

\* a chunker is called on a file text
ChunkInit ==
  /\ ckRole \in {"py", "md"}
  /\ ckText \in FileTexts
  /\ ckOut = << >>
  /\ ckDone = FALSE
  /\ ChunkRestIdle

ChunkPython ==
  /\ ~ckDone
  /\ ckRole = "py"
  /\ ckOut' = _chunk_python(ckText)
  /\ ckDone' = TRUE
  /\ UNCHANGED <<ckRole, ckText, chunkFrame>>

ChunkMarkdown ==
  /\ ~ckDone
  /\ ckRole = "md"
  /\ ckOut' = _chunk_markdown(ckText)
  /\ ckDone' = TRUE
  /\ UNCHANGED <<ckRole, ckText, chunkFrame>>

ChunkNext == ChunkPython \/ ChunkMarkdown

SpecChunk == ChunkInit /\ [][ChunkNext]_vars

\* ------------------------------------------------------------------------
\* The fetch loop of build_repo_pack (repopack.py 196-240) on a tree listing.
\* The three budgets are scaled down so that short listings and texts reach
\* them.
\* ------------------------------------------------------------------------

MAX_FILES == 3

MAX_TOTAL_CHARS == 8

MAX_FILE_CHARS == 6

MaxTree == 4

\* str.endswith
EndsWith(s, p) == Len(p) <= Len(s) /\ SubSeq(s, Len(s) - Len(p) + 1, Len(s)) = p

\* path.split("/")
RECURSIVE Segments(_)
Segments(path) ==
  IF "/" \notin {path[i] : i \in 1..Len(path)} THEN <<path>>
  ELSE <<Take(path, LeadCount(path, {path[i] : i \in 1..Len(path)} \ {"/"}))>>
         \o Segments(Drop(path, LeadCount(path, {path[i] : i \in 1..Len(path)} \ {"/"}) + 1))

\* the part of a path after its last "/"
BaseName(path) == Segments(path)[Len(Segments(path))]

\* PY_FILE and MD_FILE: r"\.py$", r"\.md$", ignoring case
PY_FILE(path) == EndsWith(LowerStr(path), <<".", "p", "y">>)

MD_FILE(path) == EndsWith(LowerStr(path), <<".", "m", "d">>)

\* TEST_FILES: r"(^|/)(tests?/)": a directory named test or tests
TEST_FILES(path) ==
  \E i \in 1..(Len(Segments(path)) - 1) :
    LowerStr(Segments(path)[i]) \in {<<"t", "e", "s", "t">>, <<"t", "e", "s", "t", "s">>}

\* DOC_FILES: the file is named README.md, README, CONTRIBUTING.md,
\* CONTRIBUTING, Makefile or Dockerfile, ignoring case
DOC_FILES(path) ==
  LowerStr(BaseName(path)) \in
    {<<"r", "e", "a", "d", "m", "e", ".", "m", "d">>, <<"r", "e", "a", "d", "m", "e">>,
     <<"c", "o", "n", "t", "r", "i", "b", "u", "t", "i", "n", "g", ".", "m", "d">>,
     <<"c", "o", "n", "t", "r", "i", "b", "u", "t", "i", "n", "g">>,
     <<"m", "a", "k", "e", "f", "i", "l", "e">>,
     <<"d", "o", "c", "k", "e", "r", "f", "i", "l", "e">>}

\* FLASK_CODE: one of the named python files, or any part of the path named
\* api, blueprints, routes or controllers
FLASK_CODE(path) ==
  \/ LowerStr(BaseName(path)) \in
       {<<"a", "p", "p", ".", "p", "y">>, <<"w", "s", "g", "i", ".", "p", "y">>,
        <<"m", "a", "n", "a", "g", "e", ".", "p", "y">>,
        <<"_", "_", "i", "n", "i", "t", "_", "_", ".", "p", "y">>,
        <<"r", "o", "u", "t", "e", "s", ".", "p", "y">>,
        <<"v", "i", "e", "w", "s", ".", "p", "y">>,
        <<"e", "r", "r", "o", "r", "s", ".", "p", "y">>,
        <<"m", "o", "d", "e", "l", "s", ".", "p", "y">>,
        <<"f", "o", "r", "m", "s", ".", "p", "y">>}
  \/ \E i \in 1..Len(Segments(path)) :
       LowerStr(Segments(path)[i]) \in
         {<<"a", "p", "i">>, <<"b", "l", "u", "e", "p", "r", "i", "n", "t", "s">>,
          <<"r", "o", "u", "t", "e", "s">>,
          <<"c", "o", "n", "t", "r", "o", "l", "l", "e", "r", "s">>}

_want_file(path) == FLASK_CODE(path) \/ DOC_FILES(path) \/ TEST_FILES(path) \/ PY_FILE(path)

\* lines 225-234: the chunker chosen by the path
ChunksOfFile(path, content) ==
  IF MD_FILE(path) \/ LowerStr(path) \in {<<"r", "e", "a", "d", "m", "e">>,
                                          <<"c", "o", "n", "t", "r", "i", "b", "u", "t", "i", "n", "g">>}
  THEN _chunk_markdown(content)
  ELSE IF PY_FILE(path) THEN _chunk_python(content)
  ELSE IF LowerStr(path) \in {<<"m", "a", "k", "e", "f", "i", "l", "e">>,
                              <<"d", "o", "c", "k", "e", "r", "f", "i", "l", "e">>}
  THEN _chunk_plain(content, "config")
  ELSE IF TEST_FILES(path) THEN _chunk_plain(content, "test")
  ELSE _chunk_plain(content, "doc")

\* lines 236-238: each chunk is stamped with the path
Stamped(cs, path) == [i \in 1..Len(cs) |-> [cs[i] EXCEPT !.path = path]]

\* [t for t in tree if t.get("type") == "blob" and _want_file(t.get("path", ""))]
RECURSIVE Wanted(_)
Wanted(tree) ==
  IF tree = << >> THEN << >>
  ELSE (IF tree[1].type = "blob" /\ _want_file(tree[1].path) THEN <<tree[1]>> ELSE << >>)
         \o Wanted(Tail(tree))

\* the paths of a listing: a source file, a markdown file, a file under
\* tests/, a file under api/, and a file that is not wanted
TreePaths ==
  {<<"a", ".", "p", "y">>, <<"R", "E", "A", "D", "M", "E", ".", "m", "d">>,
   <<"t", "e", "s", "t", "s", "/", "t">>, <<"a", "p", "i", "/", "x">>, <<"x", ".", "j", "s">>}

\* the entries of a listing: the files, and a directory
TreeEntries ==
  [path : TreePaths, type : {"blob"}] \cup {[path |-> <<"a", "p", "i">>, type |-> "tree"]}

\* listings: no path twice
TreeLists ==
  {t \in UNION {[1..n -> TreeEntries] : n \in 0..MaxTree} :
     \A i \in DOMAIN t : \A j \in DOMAIN t : i # j => t[i].path # t[j].path}

\* what gh_raw_file returns: empty, short, a def, a heading and a line, and a
\* text over MAX_FILE_CHARS
ContentPool ==
  {<< >>, <<"x", "\n", "y">>, <<"d", "e", "f", " ", "f", "(">>, <<"#", " ", "T", "\n", "x">>,
   <<"x", "x", "x", "x", "x", "x", "x">>}

\* gh_raw_file raises httpx.HTTPError
HTTPError == <<"<HTTPError>">>

\* _list_tree has returned
BuildInit ==
  /\ bdTree \in TreeLists
  /\ bdCands = << >>
  /\ bdIdx = 0
  /\ bdChunks = << >>
  /\ bdTotal = 0
  /\ bdPhase = "tree"
  /\ bdFetched = << >>
  /\ bdAccepted = << >>
  /\ bdLast = "none"
  /\ BuildRestIdle

\* lines 197-198: no tree
EmptyTree ==
  /\ bdPhase = "tree"
  /\ bdTree = << >>
  /\ bdPhase' = "failed"
  /\ UNCHANGED <<bdTree, bdCands, bdIdx, bdChunks, bdTotal, bdFetched, bdAccepted, bdLast, buildFrame>>

\* a selection without the ceiling on the number of files
SelectUncapped ==
  /\ bdPhase = "tree"
  /\ bdTree # << >>
  /\ bdCands' = Wanted(bdTree)
  /\ bdIdx' = 1
  /\ bdPhase' = "fetch"
  /\ UNCHANGED <<bdTree, bdChunks, bdTotal, bdFetched, bdAccepted, bdLast, buildFrame>>

\* line 206: the candidates
SelectCandidates ==
  /\ bdPhase = "tree"
  /\ bdTree # << >>
  /\ bdCands' = Take(Wanted(bdTree), MAX_FILES)
  /\ bdIdx' = 1
  /\ bdPhase' = "fetch"
  /\ UNCHANGED <<bdTree, bdChunks, bdTotal, bdFetched, bdAccepted, bdLast, buildFrame>>

\* a round that chunks the file before it looks at the total
AfterFetchLate(path, content, cs) ==
  IF content = HTTPError \/ Len(content) > MAX_FILE_CHARS
  THEN /\ bdIdx' = bdIdx + 1
       /\ UNCHANGED <<bdChunks, bdTotal, bdPhase, bdAccepted>>
  ELSE /\ bdTotal' = bdTotal + Len(content)
       /\ bdChunks' = bdChunks \o cs
       /\ bdAccepted' = Append(bdAccepted,
                               [path |-> path, chars |-> Len(content), n |-> Len(cs)])
       /\ IF bdTotal' > MAX_TOTAL_CHARS
          THEN bdPhase' = "upsert" /\ bdIdx' = bdIdx
          ELSE bdPhase' = bdPhase /\ bdIdx' = bdIdx + 1

\* as AfterFetch, with a fetch error ending the loop
AfterFetchErrorStops(path, content, cs) ==
  IF content = HTTPError
  THEN /\ bdPhase' = "upsert"
       /\ UNCHANGED <<bdIdx, bdChunks, bdTotal, bdAccepted>>
  ELSE IF Len(content) > MAX_FILE_CHARS
  THEN /\ bdIdx' = bdIdx + 1
       /\ UNCHANGED <<bdChunks, bdTotal, bdPhase, bdAccepted>>
  ELSE /\ bdTotal' = bdTotal + Len(content)
       /\ IF bdTotal' > MAX_TOTAL_CHARS
          THEN /\ bdPhase' = "upsert"
               /\ UNCHANGED <<bdIdx, bdChunks, bdAccepted>>
          ELSE /\ bdChunks' = bdChunks \o cs
               /\ bdAccepted' = Append(bdAccepted,
                                       [path |-> path, chars |-> Len(content), n |-> Len(cs)])
               /\ bdIdx' = bdIdx + 1
               /\ bdPhase' = bdPhase

\* what one round of the loop does with the content it got: lines 218-238
AfterFetch(path, content, cs) ==
  IF content = HTTPError \/ Len(content) > MAX_FILE_CHARS
  THEN /\ bdIdx' = bdIdx + 1
       /\ UNCHANGED <<bdChunks, bdTotal, bdPhase, bdAccepted>>
  ELSE /\ bdTotal' = bdTotal + Len(content)
       /\ IF bdTotal' > MAX_TOTAL_CHARS
          THEN /\ bdPhase' = "upsert"
               /\ UNCHANGED <<bdIdx, bdChunks, bdAccepted>>
          ELSE /\ bdChunks' = bdChunks \o cs
               /\ bdAccepted' = Append(bdAccepted,
                                       [path |-> path, chars |-> Len(content), n |-> Len(cs)])
               /\ bdIdx' = bdIdx + 1
               /\ bdPhase' = bdPhase

\* what came back from gh_raw_file, as the loop tells it apart: lines 213-219
FetchOutcome(content) ==
  IF content = HTTPError THEN "error"
  ELSE IF Len(content) > MAX_FILE_CHARS THEN "too_long"
  ELSE "read"

\* one round of the loop over the candidates: lines 211-238
FetchFile ==
  /\ bdPhase = "fetch"
  /\ bdIdx <= Len(bdCands)
  /\ bdFetched' = Append(bdFetched, bdCands[bdIdx].path)
  /\ \E content \in ContentPool \cup {HTTPError} :
       /\ bdLast' = FetchOutcome(content)
       /\ \E cs \in {IF content = HTTPError THEN << >>
                     ELSE Stamped(ChunksOfFile(bdCands[bdIdx].path, content),
                                  bdCands[bdIdx].path)} :
            AfterFetch(bdCands[bdIdx].path, content, cs)
  /\ UNCHANGED <<bdTree, bdCands, buildFrame>>

\* the candidates are used up: line 240
FetchLoopEnds ==
  /\ bdPhase = "fetch"
  /\ bdIdx > Len(bdCands)
  /\ bdPhase' = "upsert"
  /\ UNCHANGED <<bdTree, bdCands, bdIdx, bdChunks, bdTotal, bdFetched, bdAccepted, bdLast, buildFrame>>

BuildNext == EmptyTree \/ SelectCandidates \/ FetchFile \/ FetchLoopEnds

SpecBuild == BuildInit /\ [][BuildNext]_vars

\* ------------------------------------------------------------------------
\* _normalize_schema (routes.py 250-268) applied to a mapping and then to its
\* own output.
\* ------------------------------------------------------------------------

MaxIdemItems == 2

\* list items: plain; a number on a bullet; a bullet; two numbers; a number
\* on a bulleted heading
IdemItems ==
  {<<"a", "b", "c">>, <<"1", ".", " ", "-", " ", "a", "b", "c">>, <<"-", " ", "a", "b", "c">>,
   <<"1", ".", " ", "2", ".", " ", "a">>,
   <<"1", ".", " ", "-", " ", "G", "o", "t", "c", "h", "a", "s", ":">>}

IdemLists == UNION {[1..n -> IdemItems] : n \in 0..MaxIdemItems}

\* the mappings handed to the first pass
IdemInputs ==
  {("high_level_goal" :> Str(g)) @@ ("where_to_work" :> List(w)) @@ ("gotchas" :> List(x)) :
     g \in {<< >>, <<"a", "b", "c">>, <<"1", ".", " ", "-", " ", "a", "b", "c">>},
     w \in IdemLists, x \in IdemLists}

IdemInit ==
  /\ idIn \in IdemInputs
  /\ idOut = << >>
  /\ idPasses = 0
  /\ IdemRestIdle

\* a pass: the first on the mapping, the next on what the last one returned
NormalizeAgain ==
  /\ idPasses < 2
  /\ \E d \in {IF idPasses = 0 THEN idIn ELSE idOut} :
       /\ idIn' = d
       /\ idOut' = _normalize_schema(d)
  /\ idPasses' = idPasses + 1
  /\ UNCHANGED idemFrame

IdemNext == NormalizeAgain

SpecIdem == IdemInit /\ [][IdemNext]_vars

\* ------------------------------------------------------------------------
\* build_repo_pack (repopack.py 179-252) called again and again on one
\* repository, with the packs of _REPO_PACKS kept whole.  The fetch loop is
\* one step here; its rounds are the actions of SpecBuild.
\* ------------------------------------------------------------------------

MaxBuilds == 4

\* no oid, no sha
NoSha == "<none>"

Shas == {"s1", "s2", "s3"}

\* issueOrPullRequest is null
NoItem == [number |-> 0, title |-> "", bodyText |-> "<null>"]

\* the items GitHub answers with: the title is edited between two calls, the
\* body may be null
Items ==
  {[number |-> 1, title |-> "T1", bodyText |-> "<null>"],
   [number |-> 1, title |-> "T2", bodyText |-> "b"]}

\* what the GraphQL query answers
GqlAnswers == [item : Items \cup {NoItem}, oid : Shas \cup {NoSha}]

\* lines 83-90: the issue made of the item
IssueOf(item) ==
  [number |-> item.number, title |-> item.title,
   bodyText |-> IF item.bodyText = "<null>" THEN "" ELSE item.bodyText]

\* f"{owner}/{name}@{sha}"
KeyOf(sha) == <<"o/r", sha>>

\* the chunk lists a fetch loop ends with
PackChunkLists ==
  {<< >>, <<[path |-> "a.py", text |-> "x"]>>,
   <<[path |-> "a.py", text |-> "x"], [path |-> "b.md", text |-> "y"]>>}

\* the collections before any is created
NoCollections == [key \in {KeyOf(sha) : sha \in Shas} |-> "absent"]

PackCallIdle ==
  [item |-> NoItem, oid |-> NoSha, issue |-> IssueOf(NoItem), sha |-> NoSha, key |-> << >>,
   build |-> "unset", chunks |-> << >>]

\* whether key is a key of the cache
InPacks(packs, key) == \E i \in DOMAIN packs : packs[i].repo_key = key

\* _REPO_PACKS[key]
PackAt(packs, key) == packs[CHOOSE i \in DOMAIN packs : packs[i].repo_key = key]

\* _REPO_PACKS[key] = pack: a new key goes last, a present key keeps its place
PutPack(packs, pack) ==
  IF InPacks(packs, pack.repo_key)
  THEN [i \in DOMAIN packs |-> IF packs[i].repo_key = pack.repo_key THEN pack ELSE packs[i]]
  ELSE Append(packs, pack)

\* a hit that hands out the stored pack as it is
HitPackStale(stored, issue) == stored

\* lines 190-191: a copy of the stored pack with the issue just resolved
HitPack(stored, issue) == [stored EXCEPT !.issue = issue]

\* lines 74-93: what the answer of the GraphQL query leads to
ResolveOutcome(ans) ==
  IF ans.item = NoItem THEN "NotFound"
  ELSE IF ans.oid # NoSha THEN "ok"
  ELSE "fallback"

\* the record of stores and hits, a sequence of [key, stored, hit]: the call
\* numbered n stores key, or hits it
HistOf(hist, key) ==
  IF \E i \in DOMAIN hist : hist[i].key = key
  THEN hist[CHOOSE i \in DOMAIN hist : hist[i].key = key]
  ELSE [key |-> key, stored |-> 0, hit |-> 0]

PutHist(hist, h) ==
  IF \E i \in DOMAIN hist : hist[i].key = h.key
  THEN [i \in DOMAIN hist |-> IF hist[i].key = h.key THEN h ELSE hist[i]]
  ELSE Append(hist, h)

NoteStore(hist, key, n) == PutHist(hist, [HistOf(hist, key) EXCEPT !.stored = n])

NoteHit(hist, key, n) == PutHist(hist, [HistOf(hist, key) EXCEPT !.hit = n])

\* a failure that empties the cache
PackFailsClearing(cause) ==
  /\ pkPc' = "failed"
  /\ pkRet' = cause
  /\ pkPacks' = << >>
  /\ UNCHANGED <<pkColls, pkHist>>

\* the call raises
PackFails(cause) ==
  /\ pkPc' = "failed"
  /\ pkRet' = cause
  /\ UNCHANGED <<pkPacks, pkColls, pkHist>>

\* lines 186-195, once the sha is known: a hit returns, a miss goes on
KeyCheck(sha, call) ==
  IF InPacks(pkPacks, KeyOf(sha))
  THEN /\ pkCall' = [call EXCEPT !.sha = sha, !.key = KeyOf(sha), !.build = "hit"]
       /\ pkRet' = HitPack(PackAt(pkPacks, KeyOf(sha)), call.issue)
       /\ pkPc' = "returned"
       /\ pkHist' = NoteHit(pkHist, KeyOf(sha), pkCalls)
       /\ UNCHANGED <<pkPacks, pkColls>>
  ELSE /\ pkCall' = [call EXCEPT !.sha = sha, !.key = KeyOf(sha), !.build = "cold"]
       /\ pkPc' = "tree"
       /\ UNCHANGED <<pkPacks, pkColls, pkRet, pkHist>>

PackInit ==
  /\ pkPacks = << >>
  /\ pkColls = NoCollections
  /\ pkPc = "idle"
  /\ pkCall = PackCallIdle
  /\ pkRet = << >>
  /\ pkBefore = [packs |-> << >>, colls |-> NoCollections]
  /\ pkOps = {}
  /\ pkCalls = 0
  /\ pkHist = << >>
  /\ PackRestIdle

\* build_repo_pack is called, by the first request or after the request
\* before it has failed or gone on with the pack: lines 179-183
PackCall ==
  /\ pkPc \in {"idle", "summarized", "failed"}
  /\ pkCalls < MaxBuilds
  /\ pkCalls' = pkCalls + 1
  /\ pkPc' = "resolve"
  /\ pkCall' = PackCallIdle
  /\ pkRet' = << >>
  /\ pkBefore' = [packs |-> pkPacks, colls |-> pkColls]
  /\ pkOps' = {}
  /\ UNCHANGED <<pkPacks, pkColls, pkHist, packFrame>>

\* the GraphQL query is answered: lines 73-93 and, with an oid, 186-195
PackResolve ==
  /\ pkPc = "resolve"
  /\ \E ans \in GqlAnswers :
       \E call \in {[pkCall EXCEPT !.item = ans.item, !.oid = ans.oid,
                                   !.issue = IssueOf(ans.item)]} :
         CASE ResolveOutcome(ans) = "NotFound" -> pkCall' = call /\ PackFails("NotFound")
           [] ResolveOutcome(ans) = "ok" -> KeyCheck(ans.oid, call)
           [] OTHER -> /\ pkCall' = call
                       /\ pkPc' = "fallback"
                       /\ UNCHANGED <<pkPacks, pkColls, pkRet, pkHist>>
  /\ UNCHANGED <<pkBefore, pkOps, pkCalls, packFrame>>

\* the two REST lookups of the fallback are answered: lines 94-102 and, with
\* a sha, 186-195; either lookup may raise for its HTTP status
PackFallbackRef ==
  /\ pkPc = "fallback"
  /\ \E ref \in Shas \cup {NoSha, "<HTTPError>"} :
       CASE ref = NoSha -> pkCall' = pkCall /\ PackFails("Unresolvable")
         [] ref = "<HTTPError>" -> pkCall' = pkCall /\ PackFails("HTTPError")
         [] OTHER -> KeyCheck(ref, pkCall)
  /\ UNCHANGED <<pkBefore, pkOps, pkCalls, packFrame>>

\* _list_tree is answered: lines 196-198
PackListTree ==
  /\ pkPc = "tree"
  /\ pkOps' = pkOps \cup {"tree"}
  /\ \/ PackFails("EmptyTree")
     \/ pkPc' = "fetch" /\ UNCHANGED <<pkPacks, pkColls, pkRet, pkHist>>
  /\ UNCHANGED <<pkCall, pkBefore, pkCalls, packFrame>>

\* the fetch loop: lines 206-240
PackFetch ==
  /\ pkPc = "fetch"
  /\ pkOps' = pkOps \cup {"fetch"}
  /\ \E cs \in PackChunkLists : pkCall' = [pkCall EXCEPT !.chunks = cs]
  /\ pkPc' = "upsert"
  /\ UNCHANGED <<pkPacks, pkColls, pkRet, pkBefore, pkCalls, pkHist, packFrame>>

\* upsert_chunks raises after it has made the collection, or returns and the
\* pack is stored, the cache trimmed and the pack returned: lines 245-252
PackUpsert ==
  /\ pkPc = "upsert"
  /\ pkOps' = pkOps \cup {"ingest"}
  /\ \/ /\ pkCall.chunks # << >>
        /\ pkColls' = [pkColls EXCEPT ![pkCall.key] = Created(@)]
        /\ pkPc' = "failed"
        /\ pkRet' = "EmbeddingError"
        /\ UNCHANGED <<pkPacks, pkHist>>
     \/ /\ \E stored \in BOOLEAN :
             /\ stored => pkCall.chunks # << >>
             /\ pkColls' = [pkColls EXCEPT
                              ![pkCall.key] = IF stored THEN "filled" ELSE Created(@)]
        /\ \E pack \in {[repo_key |-> pkCall.key, sha |-> pkCall.sha, issue |-> pkCall.issue,
                         chunks |-> pkCall.chunks]} :
             /\ pkPacks' = _evict_if_needed(PutPack(pkPacks, pack))
             /\ pkRet' = pack
        /\ pkHist' = NoteStore(pkHist, pkCall.key, pkCalls)
        /\ pkPc' = "returned"
  /\ UNCHANGED <<pkCall, pkBefore, pkCalls, packFrame>>

\* _summarize_issue_text on the bodies of Items: an empty body gives "", a
\* body of one plain short paragraph is returned as it is (routes.py 24-50)
_summarize_issue_text(md) == IF md = "" THEN "" ELSE md

\* issue["summary"] = ... on the issue of a pack
WithSummary(pack) ==
  [pack EXCEPT !.issue = ("summary" :> _summarize_issue_text(pack.issue.bodyText))
                           @@ pack.issue]

\* _work after build_repo_pack has returned: routes.py 374-375.  A cold build
\* returns the dict it stored (repopack.py 248-252), so the issue written to
\* is the one of the stored entry; a hit returns a copy holding the issue
\* just resolved (repopack.py 190-191)
WorkSummary ==
  /\ pkPc = "returned"
  /\ pkPc' = "summarized"
  /\ pkRet' = WithSummary(pkRet)
  /\ pkPacks' = IF pkCall.build = "cold"
                THEN [i \in DOMAIN pkPacks |->
                        IF pkPacks[i].repo_key = pkRet.repo_key
                        THEN WithSummary(pkPacks[i])
                        ELSE pkPacks[i]]
                ELSE pkPacks
  /\ UNCHANGED <<pkColls, pkCall, pkBefore, pkOps, pkCalls, pkHist, packFrame>>

PackNext ==
  \/ PackCall
  \/ PackResolve
  \/ PackFallbackRef
  \/ PackListTree
  \/ PackFetch
  \/ PackUpsert
  \/ WorkSummary

SpecPack == PackInit /\ [][PackNext]_vars

\* ------------------------------------------------------------------------
\* Two calls of build_repo_pack in two threads (the route is a synchronous
\* view that runs its own event loop: routes.py 357, 456), from the cache
\* test of line 188 to the return.  _REPO_PACKS is a plain dict without a
\* lock: a thread can be switched out between any two steps below.
\* ------------------------------------------------------------------------

Threads == {1, 2}

\* the snapshot keys of the two calls, and the keys cached before them
RaceKeys == {"o/a@s", "o/b@s"}

OldKeys == {"o/r@s1", "o/r@s2", "o/r@s3"}

\* the ids upsert_chunks makes from the chunks of a snapshot
SnapshotIds == {"a.py:1-2:0", "a.py:3-9:0"}

\* the caches of at most REPO_CACHE_MAX entries the calls can find
RaceCaches ==
  {c \in UNION {[1..n -> OldKeys] : n \in 0..REPO_CACHE_MAX} :
     \A i, j \in DOMAIN c : i # j => c[i] # c[j]}

NoThread(key) == [key |-> key, pc |-> "check_key", build |-> "unset", size |-> 0, victim |-> "", err |-> ""]

RaceInit ==
  /\ rcPacks \in RaceCaches
  /\ rcIds = [k \in RaceKeys |-> {}]
  /\ \E k \in RaceKeys : rcThr = [t \in Threads |-> NoThread(IF t = 1 THEN "o/a@s" ELSE k)]
  /\ RaceRestIdle

\* thread t goes to pc with these fields changed
Goes(t, pc2, fields) ==
  rcThr' = [rcThr EXCEPT ![t] = [f \in DOMAIN rcThr[t] |->
                                   IF f = "pc" THEN pc2
                                   ELSE IF f \in DOMAIN fields THEN fields[f] ELSE rcThr[t][f]]]

\* "if key in _REPO_PACKS": lines 188-193
RaceKeyCheck(t) ==
  /\ rcThr[t].pc = "check_key"
  /\ IF rcThr[t].key \in PackKeys(rcPacks)
     THEN Goes(t, "returned", [build |-> "hit"])
     ELSE Goes(t, "upsert", [build |-> "cold"])
  /\ UNCHANGED <<rcPacks, rcIds, raceFrame>>

\* upsert_chunks(repo_key, chunks): line 245; the ids are upserted
RaceUpsert(t) ==
  /\ rcThr[t].pc = "upsert"
  /\ rcIds' = [rcIds EXCEPT ![rcThr[t].key] = @ \cup SnapshotIds]
  /\ Goes(t, "store", << >>)
  /\ UNCHANGED <<rcPacks, raceFrame>>

\* _REPO_PACKS[key] = pack: line 249
RaceStore(t) ==
  /\ rcThr[t].pc = "store"
  /\ rcPacks' = StorePack(rcPacks, rcThr[t].key)
  /\ Goes(t, "evict_test", << >>)
  /\ UNCHANGED <<rcIds, raceFrame>>

\* "if len(_REPO_PACKS) > REPO_CACHE_MAX": line 68
RaceEvictTest(t) ==
  /\ rcThr[t].pc = "evict_test"
  /\ IF Len(rcPacks) > REPO_CACHE_MAX
     THEN Goes(t, "iter", << >>)
     ELSE Goes(t, "returned", << >>)
  /\ UNCHANGED <<rcPacks, rcIds, raceFrame>>

\* iter(_REPO_PACKS): line 70; the iterator notes the size of the dict
RaceIter(t) ==
  /\ rcThr[t].pc = "iter"
  /\ Goes(t, "next", [size |-> Len(rcPacks)])
  /\ UNCHANGED <<rcPacks, rcIds, raceFrame>>

\* next(...): line 70; the first key, or RuntimeError when the dict has
\* changed size since the iterator was made
RaceIterNext(t) ==
  /\ rcThr[t].pc = "next"
  /\ IF Len(rcPacks) # rcThr[t].size
     THEN Goes(t, "raised", [err |-> "RuntimeError"])
     ELSE Goes(t, "pop", [victim |-> rcPacks[1]])
  /\ UNCHANGED <<rcPacks, rcIds, raceFrame>>

\* _REPO_PACKS.pop(key): line 70; KeyError when the key is gone
RacePop(t) ==
  /\ rcThr[t].pc = "pop"
  /\ IF rcThr[t].victim \in PackKeys(rcPacks)
     THEN /\ rcPacks' = SelectSeq(rcPacks, LAMBDA k : k # rcThr[t].victim)
          /\ Goes(t, "returned", << >>)
     ELSE /\ Goes(t, "raised", [err |-> "KeyError"])
          /\ UNCHANGED rcPacks
  /\ UNCHANGED <<rcIds, raceFrame>>

RaceNext ==
  \E t \in Threads :
    \/ RaceKeyCheck(t)
    \/ RaceUpsert(t)
    \/ RaceStore(t)
    \/ RaceEvictTest(t)
    \/ RaceIter(t)
    \/ RaceIterNext(t)
    \/ RacePop(t)

SpecRace == RaceInit /\ [][RaceNext]_vars

\* ------------------------------------------------------------------------
\* Properties
\* ------------------------------------------------------------------------

\* d has exactly the five keys, the goal a string and the other four lists
ValidDoc(d) ==
  /\ DOMAIN d = {_EXPECTED_KEYS[i] : i \in 1..5}
  /\ d.high_level_goal.t = "str"
  /\ \A i \in 1..4 : d[ListKeys[i]].t = "list"

\* no two items of the list are equal ignoring case
NoDuplicates(xs) ==
  \A i \in 1..Len(xs) : \A j \in 1..Len(xs) : i # j => LowerStr(xs[i]) # LowerStr(xs[j])

\* C1: with requests served one at a time, the snapshot cache never holds more
\* than REPO_CACHE_MAX entries: it holds as many as cold builds have completed,
\* up to the maximum; a cold build that finds the cache full leaves it at the
\* same size (one entry in, exactly one out) with its own key present; so with
\* maximum 2, three cold builds leave exactly 2 entries.
C1_CacheBounded ==
  /\ Len(_REPO_PACKS) <= REPO_CACHE_MAX
  /\ Cardinality(PackKeys(_REPO_PACKS)) = Len(_REPO_PACKS)
  /\ Len(_REPO_PACKS) = (IF nBuilt < REPO_CACHE_MAX THEN nBuilt ELSE REPO_CACHE_MAX)
  /\ rq.build = "cold" =>
       /\ rq.key \in PackKeys(_REPO_PACKS)
       /\ Len(_REPO_PACKS) = (IF rq.sizeBefore + 1 > REPO_CACHE_MAX
                              THEN rq.sizeBefore + 1 - 1
                              ELSE rq.sizeBefore + 1)

\* three cold builds have completed and the third found the cache full
C1_Witness ==
  /\ nBuilt = 3
  /\ rq.build = "cold"
  /\ rq.sizeBefore = REPO_CACHE_MAX
  /\ Len(_REPO_PACKS) = 2

\* C2: a pair of snapshot and issue that got guidance that was no fallback is
\* not generated for again before HINTS_CACHE_TTL has passed.
C2_Memoized ==
  ~(/\ pc = "generate"
    /\ served.key = rq.key
    /\ served.number = rq.number
    /\ now < served.at + HINTS_CACHE_TTL)

\* C6: a request ends with status 500 only for an absent issue, an
\* unresolvable commit or an empty tree.
C6_OnlyThreeFailures ==
  pc = "done" /\ out.status = 500 => out.error \in {"NotFound", "Unresolvable", "EmptyTree"}

\* C7: when the generation call raises or times out the request answers 200
\* with the static fallback document for the issue title (one item per list)
\* and the fallback flag set; a response carries the flag only then or on the
\* route timeout, never after generate_hints_text returned a text.
C7_FallbackOnlyOnGenerationFailure ==
  /\ rq.gen \in {"raise", "timeout"} =>
       /\ pc = "done"
       /\ out = Response(_fallback_hints(rq.title), TRUE)
       /\ \A i \in 1..4 : Len(out.hints[ListKeys[i]].v) = 1
  /\ pc = "done" /\ out.hints_fallback =>
       rq.gen \in {"raise", "timeout"} \/ out.error = "starter_kit_timeout"
  /\ rq.gen = "ok" => pc = "done" /\ out.status = 200 /\ ~out.hints_fallback

\* the generation call raised and the request answered with the fallback
C7_Witness ==
  /\ pc = "done"
  /\ rq.gen = "raise"
  /\ out.status = 200
  /\ out.hints_fallback

\* C8: a request whose retrieval timed out goes on with no chunks: it does not
\* end there, the prompt is built from the empty chunk list, the generation
\* call is made, and the response is no failure.
C8_RetrievalTimeoutContinues ==
  rq.retr = "timeout" =>
    /\ rq.chunks = << >>
    /\ pc \in {"lookup", "generate", "done"}
    /\ pc \in {"generate", "done"} /\ ~rq.cached =>
         /\ rq.prompt = [built |-> TRUE, chunks |-> << >>]
         /\ rq.gen # "unset"
    /\ pc = "done" => out.status = 200

\* the retrieval timed out and the request ended with generated guidance
C8_Witness ==
  /\ rq.retr = "timeout"
  /\ pc = "done"
  /\ rq.gen = "ok"
  /\ out.status = 200
  /\ ~out.hints_fallback

\* C9: within a request the steps come in order: the ingestion of the
\* snapshot is complete (in this request's cold build, or in the earlier one
\* that stored the pack) before the index is queried, the query has ended or
\* timed out before the prompt is built, the prompt is built before the
\* generation call, and no generation call is made before the retrieval ended.
C9_StepsOrdered ==
  LET e == rq.events
      Before(a, b) == \A j \in 1..Len(e) : e[j] = b => \E i \in 1..(j - 1) : e[i] = a
      Has(a) == \E i \in 1..Len(e) : e[i] = a
  IN /\ Before("query", "prompt")
     /\ Before("prompt", "generate")
     /\ Has("query") => /\ collections[rq.key] # "absent"
                        /\ rq.build \in {"hit", "cold"}
                        /\ rq.build = "cold" => Before("ingest", "query")
     /\ rq.build = "hit" => collections[rq.key] # "absent"
     /\ rq.gen # "unset" => rq.retr \in {"ok", "timeout"} /\ Has("generate")
     /\ rq.prompt.built => Has("prompt")

\* a request that went through a cold build, the query, the prompt and the
\* generation call
C9_Witness ==
  /\ pc = "done"
  /\ rq.events = <<"ingest", "query", "prompt", "generate">>
  /\ rq.gen = "ok"

\* C4: the document of every path (JSON stage, heading split, heuristic
\* classification, static fallback) has exactly the five keys, the goal a
\* string and the other four lists, whatever the generated text.
C4_FiveKeys == normStage # "input" => ValidDoc(normDoc)

\* the JSON stage made a document of an object that gives a list key a string
C4_Witness ==
  /\ normStage = "json"
  /\ "how_to_verify" \in DOMAIN genJson.v
  /\ genJson.v["how_to_verify"].t = "str"
  /\ normDoc.how_to_verify = List(<< >>)

\* C5: the document of every normalizer stage has at most 3, 3, 2 and 2 items
\* in its lists and no list with two items equal ignoring case.
C5_CapsAndNoDuplicates ==
  normStage \in {"json", "headings", "classify"} =>
    \A i \in 1..4 :
      /\ Len(normDoc[ListKeys[i]].v) <= ListLimit(ListKeys[i])
      /\ NoDuplicates(normDoc[ListKeys[i]].v)

\* C3: guidance is never served from a guidance cache entry flagged as a
\* fallback, within its TTL or not: a lookup that finds a flagged entry (or an
\* expired one) serves nothing from it, removes it from the cache and goes on
\* to the generation call; what the cache serves comes from an entry that is
\* not flagged and has not expired.
C3_FallbackEntryNeverServed ==
  LET ck == CacheKey(rq.key, rq.number)
  IN /\ rq.entry \in {"fallback", "fallback expired", "expired"} =>
          /\ ~rq.cached
          /\ ck \notin DOMAIN _HINTS_CACHE
          /\ rq.gen # "unset"
          /\ pc \in {"generate", "done"}
          /\ pc = "done" => rq.gen \in {"ok", "raise", "timeout"} \/ out.error = "starter_kit_timeout"
     /\ rq.cached =>
          /\ rq.entry = "fresh"
          /\ ck \in DOMAIN _HINTS_CACHE
          /\ ~FallbackFlag(_HINTS_CACHE[ck].data)
          /\ out = Response(_HINTS_CACHE[ck].data.hints, FALSE)

\* the lookup found a flagged entry within its TTL, and the request ended with
\* newly generated guidance
C3_Witness ==
  /\ rq.entry = "fallback"
  /\ pc = "done"
  /\ rq.gen = "ok"
  /\ ~rq.cached

\* C10: two calls of upsert_chunks with the same chunks leave as many
\* sub-chunks in the collection as the first call left.
C10_NoGrowth ==
  upCall = 2 /\ upPhase = "done" => Cardinality(upColl) = upFirst.count

\* C10, amended: when the first call was not cut short by MAX_EMBED_SECONDS and
\* lost no sub-chunk to a failing or empty embedding, the second call with the
\* same chunks stores ids the first one stored and leaves the count as it was.
C10_NoGrowthAfterFullCall ==
  upCall = 2 /\ upPhase = "done" /\ upFirst.full =>
    /\ Cardinality(upColl) = upFirst.count
    /\ upKept \subseteq upFirst.ids
    /\ upFirst.count <= MAX_SUBCHUNKS_PER_REPO

\* the second call stored sub-chunks again after a first call that stored
\* three of two chunks
C10_Witness ==
  /\ upCall = 2
  /\ upPhase = "done"
  /\ upFirst.full
  /\ upFirst.count = 3
  /\ Len(upChunks) = 2
  /\ Cardinality(upKept) >= 2

\* C11: a call of upsert_chunks gathers at most MAX_SUBCHUNKS_PER_REPO
\* sub-chunks, gathers no more once that count is reached or the deadline has
\* passed, and when it ends every row that an earlier call stored under an id
\* this call did not write is still there with the same text, metadata and
\* embedding.
C11_BoundedAndPreserving ==
  /\ [](/\ Len(upIds) <= MAX_SUBCHUNKS_PER_REPO
        /\ upPhase = "done" =>
             \A id \in DOMAIN upBefore :
               id \notin upKept => id \in DOMAIN upStore /\ upStore[id] = upBefore[id])
  /\ [][(upExpired \/ Len(upIds) >= MAX_SUBCHUNKS_PER_REPO) /\ upPhase \in {"loop", "subs"}
          => upIds' = upIds]_vars

\* the second call was cut short by the deadline after the first had stored
\* rows: it wrote some of them again and left others as the first call wrote
\* them
C11_Witness ==
  /\ upPhase = "done"
  /\ upCall = 2
  /\ upExpired
  /\ upKept # {}
  /\ \E id \in DOMAIN upBefore : id \notin upKept /\ upStore[id].emb = 1
  /\ \E id \in upKept : id \in DOMAIN upBefore /\ upStore[id].emb = 2

NoMarkers ==
  \A j \in 1..Len(SplitLines(ckText)) :
    IF ckRole = "py" THEN ~PyHeader(SplitLines(ckText)[j]) ELSE ~MdHeading(SplitLines(ckText)[j])

\* C13: for a file text without a boundary marker, empty and blank texts
\* included, the chunker returns exactly one chunk, and its line range is
\* the whole file.
C13_OneChunkWithoutMarkers ==
  ckDone /\ NoMarkers =>
    /\ Len(ckOut) = 1
    /\ ckOut[1].start_line = 1
    /\ ckOut[1].end_line = Len(SplitLines(ckText))

\* the paths of a sequence of tree entries
PathsOf(entries) == [i \in 1..Len(entries) |-> entries[i].path]

\* the chunks are in the order in which their files were fetched
InFileOrder ==
  \A i \in DOMAIN bdChunks : \A j \in DOMAIN bdChunks :
    i < j =>
      \E a \in DOMAIN bdFetched : \E b \in DOMAIN bdFetched :
        a <= b /\ bdFetched[a] = bdChunks[i].path /\ bdFetched[b] = bdChunks[j].path

\* C14: the files a cold build tries to fetch are exactly the first MAX_FILES
\* wanted blobs of the tree, in tree order, and the chunks come in that file
\* order (as stated).
C14_FetchesFirstMaxFiles ==
  bdPhase = "upsert" =>
    /\ bdFetched = PathsOf(Take(Wanted(bdTree), MAX_FILES))
    /\ InFileOrder

\* C14 (amended): the candidates are exactly the first MAX_FILES wanted blobs
\* in tree order; the files fetched are the candidates up to the one whose
\* characters take the total over MAX_TOTAL_CHARS, all of them when the total
\* stays within it; the chunks come in that file order.
C14_FetchesPrefixOfFirstMaxFiles ==
  bdPhase = "upsert" =>
    /\ bdCands = Take(Wanted(bdTree), MAX_FILES)
    /\ Len(bdFetched) <= MAX_FILES
    /\ bdFetched = Take(PathsOf(Take(Wanted(bdTree), MAX_FILES)), Len(bdFetched))
    /\ bdTotal <= MAX_TOTAL_CHARS => bdFetched = PathsOf(Take(Wanted(bdTree), MAX_FILES))
    /\ InFileOrder

\* a tree with more wanted blobs than MAX_FILES: the first MAX_FILES were
\* fetched, and chunks of two files are in the output
C14_Witness ==
  /\ bdPhase = "upsert"
  /\ Len(Wanted(bdTree)) > MAX_FILES
  /\ Len(bdFetched) = MAX_FILES
  /\ bdTotal <= MAX_TOTAL_CHARS
  /\ \E i \in DOMAIN bdChunks : \E j \in DOMAIN bdChunks : bdChunks[i].path # bdChunks[j].path

RECURSIVE SumChars(_)
SumChars(files) ==
  IF files = << >> THEN 0
  ELSE (IF files[1].n > 0 THEN files[1].chars ELSE 0) + SumChars(Tail(files))

\* C15: once total_chars is over MAX_TOTAL_CHARS no further file is fetched,
\* the chunks of the files accepted before stay in the output, and the
\* characters of the files that have chunks in the output sum to at most
\* MAX_TOTAL_CHARS.
C15_CharBudget ==
  /\ [](/\ SumChars(bdAccepted) <= MAX_TOTAL_CHARS
        /\ \A i \in DOMAIN bdChunks : \E a \in DOMAIN bdAccepted :
             bdAccepted[a].path = bdChunks[i].path
        /\ \A a \in DOMAIN bdAccepted :
             Cardinality({i \in DOMAIN bdChunks : bdChunks[i].path = bdAccepted[a].path})
               = bdAccepted[a].n)
  /\ [][/\ bdTotal > MAX_TOTAL_CHARS => bdFetched' = bdFetched
        /\ Take(bdChunks', Len(bdChunks)) = bdChunks]_vars

\* the second file took the total over the ceiling: the chunks of the first
\* are in the output and a third candidate was never fetched
C15_Witness ==
  /\ bdPhase = "upsert"
  /\ bdTotal > MAX_TOTAL_CHARS
  /\ Len(bdFetched) = 2
  /\ Len(bdCands) = 3
  /\ Len(bdAccepted) = 1
  /\ bdChunks # << >>

\* C16: _normalize_schema is idempotent: applied to its own output it returns
\* that output.
C16_Idempotent == idPasses = 2 => idOut = idIn

\* C17: on a hit build_repo_pack returns the stored pack's key, commit and
\* chunks with the issue just resolved, lists no tree, fetches no file and
\* ingests nothing, and leaves the cache (so the entry's key, commit and
\* chunks) and the collections as they were.
C17_HitReusesSnapshot ==
  pkPc = "returned" /\ pkCall.build = "hit" =>
    /\ InPacks(pkBefore.packs, pkCall.key)
    /\ pkRet.repo_key = pkCall.key
    /\ pkRet.sha = PackAt(pkBefore.packs, pkCall.key).sha
    /\ pkRet.chunks = PackAt(pkBefore.packs, pkCall.key).chunks
    /\ pkRet.issue = IssueOf(pkCall.item)
    /\ pkOps = {}
    /\ pkPacks = pkBefore.packs
    /\ pkColls = pkBefore.colls

\* a hit on a pack with chunks whose stored issue has another title than the
\* one just resolved
C17_Witness ==
  /\ pkPc = "returned"
  /\ pkCall.build = "hit"
  /\ pkRet.chunks # << >>
  /\ PackAt(pkPacks, pkCall.key).issue.title # pkRet.issue.title

C19_IngestionTerminates ==
  /\ (upPhase = "split") ~> (upPhase = "subs")
  /\ (upPhase \in {"loop", "split", "subs", "embed"}) ~> (upPhase = "done")

\* what _parse_llm_json works on: the object under "hints" when the parsed
\* value nests one there (lines 282-283)
JsonPayload(js) ==
  IF js.t = "obj" /\ "hints" \in DOMAIN js.v /\ js.v["hints"].t = "obj"
  THEN js.v["hints"] ELSE js

\* the block did not parse, or parsed to something that is no object
ParseErrorOrNonObject == genText = << >> \/ genJson = ParseError \/ JsonPayload(genJson).t # "obj"

\* the document is the one of the first stage that succeeds, given when the
\* structured-JSON stage counts as failed (the texts drawn are under the word
\* cap of line 315)
StagesInOrder(jsonFailed) ==
  normStage \in {"json", "headings", "classify"} =>
    \A sections \in {_split_sections(Strip(genText))} :
      /\ normStage = (IF ~jsonFailed THEN "json"
                      ELSE IF sections # NoSections THEN "headings" ELSE "classify")
      /\ normDoc = (IF ~jsonFailed THEN _normalize_schema(MappedDict(JsonPayload(genJson).v))
                    ELSE IF sections # NoSections THEN SectionsDoc(sections)
                    ELSE _classify_into_schema(Strip(genText)))

CleanedDoc(d) ==
  [goal |-> _clean_item(IF Truthy(Get(d, "high_level_goal")) THEN Get(d, "high_level_goal").v
                        ELSE << >>),
   lists |-> [k \in {ListKeys[i] : i \in 1..4} |-> _norm_list(IterItems(Get(d, k)), ListLimit(k))]]

\* C21: what_to_change is seeded with the goal exactly when the goal is not
\* empty and all four cleaned lists are; an empty goal becomes the first item
\* of a non-empty what_to_change; in every other case the document holds the
\* goal and the lists as cleaned.
C21_SeedOnlyWhenAllFourListsEmpty ==
  idPasses >= 1 =>
    \A c \in {CleanedDoc(idIn)} :
      LET seeded == c.goal # << >> /\ \A k \in DOMAIN c.lists : c.lists[k] = << >>
          what == IF seeded THEN <<c.goal>> ELSE c.lists["what_to_change"]
          goal == IF c.goal = << >> /\ what # << >> THEN what[1] ELSE c.goal
      IN idOut = [high_level_goal |-> Str(goal),
                  where_to_work |-> List(c.lists["where_to_work"]),
                  what_to_change |-> List(what),
                  how_to_verify |-> List(c.lists["how_to_verify"]),
                  gotchas |-> List(c.lists["gotchas"])]

\* the field a heading phrase names, whatever its letter case and whichever
\* way "High-level" is written
FieldOfPhrase(f) ==
  CASE LowerStr(f) \in {PhraseHighHyphen, PhraseHighSpace, PhraseHighJoined} -> "high_level_goal"
    [] LowerStr(f) = PhraseWhere -> "where_to_work"
    [] LowerStr(f) = PhraseWhat -> "what_to_change"
    [] LowerStr(f) = PhraseHow -> "how_to_verify"
    [] LowerStr(f) = PhraseGotchas -> "gotchas"
    [] OTHER -> "none"

\* the text between the last heading line of a field and the next heading
\* line (or the end of the text); empty when the field has no heading line
SpanOfField(ls, field) ==
  LET heads == HeadingLines(ls)
      mine == {j \in heads : FieldOfPhrase(HeadingName(ls[j])) = field}
      last == CHOOSE j \in mine : \A m \in mine : m <= j
  IN IF mine = {} THEN << >>
     ELSE Strip(JoinLines(SubSeq(ls, last + 1, NextHeading(heads, last, Len(ls)) - 1)))

\* C22: in the heading-split stage the text after every recognized heading,
\* in whatever accepted form it is written, up to the next recognized heading
\* is the content of that heading's field (the goal as text, the lists line by
\* line), and a field without heading is empty.
C22_EveryHeadingFormFillsItsField ==
  normStage = "headings" =>
    \A ls \in {SplitLines(StripTicks(StripBold(Strip(genText))))} :
      \A spans \in {[f \in {_EXPECTED_KEYS[i] : i \in 1..5} |-> SpanOfField(ls, f)]} :
        /\ normDoc.high_level_goal = Str(spans["high_level_goal"])
        /\ \A i \in 1..4 : normDoc[ListKeys[i]] = List(_to_list(spans[ListKeys[i]]))

\* the list the priority of the claim gives an item
ListByPriority(i) ==
  CASE HasCmd(i) -> "how_to_verify"
    [] ~HasCmd(i) /\ LooksGotcha(i) -> "gotchas"
    [] ~HasCmd(i) /\ ~LooksGotcha(i) /\ HasCitation(i) -> "where_to_work"
    [] OTHER -> "what_to_change"

\* the places of the items that can be the goal
GoalPlaces(items) ==
  {j \in 1..Len(items) :
     Len(Words(items[j])) <= GoalMaxWords /\ \E w \in ActionVerbs : HasWord(items[j], w)}

\* the first of them, or "" when there is none
FirstGoal(items) ==
  IF GoalPlaces(items) = {} THEN << >>
  ELSE items[CHOOSE j \in GoalPlaces(items) : \A m \in GoalPlaces(items) : j <= m]

\* the items other than the goal that the priority gives list k, in order
ItemsFor(items, goal, k) ==
  SelectSeq(items, LAMBDA i : (goal = << >> \/ i # goal) /\ ListByPriority(i) = k)

InList(doc, k, i) == \E j \in 1..Len(doc[k].v) : doc[k].v[j] = i

\* C23 as stated: the goal is the first short item with an action verb and
\* is in no list, and every other item is in exactly one list, the one the
\* priority gives it.
C23_EveryItemInExactlyOneList ==
  normStage = "classify" =>
    \A items \in {_bulletize(Strip(genText))} :
      /\ normDoc.high_level_goal = Str(FirstGoal(items))
      /\ \A j \in 1..Len(items) : \A n \in 1..4 :
           InList(normDoc, ListKeys[n], items[j])
             <=> /\ FirstGoal(items) = << >> \/ items[j] # FirstGoal(items)
                 /\ ListByPriority(items[j]) = ListKeys[n]

\* C23: the goal is the first short item with an action verb and is in no
\* list; each list holds, in order, the first items other than the goal that
\* the priority gives it, up to its cap (3 for where_to_work and
\* what_to_change, 2 for how_to_verify and gotchas): an item is in no other
\* list than the one the priority gives it, and in none when that list is
\* full; an item with a command token and a citation is given how_to_verify.
C23_PriorityWithCaps ==
  normStage = "classify" =>
    \A items \in {_bulletize(Strip(genText))} :
      \A goal \in {FirstGoal(items)} :
        /\ normDoc.high_level_goal = Str(goal)
        /\ \A n \in 1..4 :
             normDoc[ListKeys[n]] =
               List(Take(ItemsFor(items, goal, ListKeys[n]), IF n <= 2 THEN 3 ELSE 2))
        /\ \A j \in 1..Len(items) :
             HasCmd(items[j]) /\ HasCitation(items[j]) =>
               \A n \in {1, 2, 4} : ~InList(normDoc, ListKeys[n], items[j])

\* a text with a goal and an item with a command token and a citation: the
\* item is in how_to_verify and not in where_to_work
C23_Witness ==
  /\ normStage = "classify"
  /\ normDoc.high_level_goal = Str(ClFix)
  /\ InList(normDoc, "how_to_verify", ClMakeCite)
  /\ ~InList(normDoc, "where_to_work", ClMakeCite)
  /\ \A n \in 1..4 : ~InList(normDoc, ListKeys[n], ClFix)

\* the places of the candidates that have a path, clear the threshold and
\* whose path no earlier such candidate has
FirstOfPath(raw, m) ==
  {i \in 1..Len(raw) :
     /\ raw[i].path # ""
     /\ SimOf(raw[i]) >= m
     /\ \A j \in 1..(i - 1) : ~(raw[j].path = raw[i].path /\ SimOf(raw[j]) >= m)}

\* the n-th place of a set of places
NthPlace(places, n) == CHOOSE i \in places : Cardinality({j \in places : j < i}) = n - 1

\* C24: the items returned are, in the order of the index, the first k
\* candidates that have a path, clear min_sim and whose path no earlier such
\* candidate has; the loop never looks at a candidate after the one that gave
\* the k-th path.
C24_FirstKBestPerPath ==
  \A first \in {FirstOfPath(rtRaw, rtMinSim)} :
    /\ rtDone =>
         /\ Len(rtByPath) = (IF Cardinality(first) < rtK THEN Cardinality(first) ELSE rtK)
         /\ \A n \in 1..Len(rtByPath) :
              /\ rtByPath[n].path = rtRaw[NthPlace(first, n)].path
              /\ rtByPath[n].score = rtRaw[NthPlace(first, n)].score
    /\ Cardinality(first) >= rtK => rtIdx <= NthPlace(first, rtK) + 1

\* k paths are kept; a candidate under the threshold was passed over before a
\* later one of the same path was kept, and a candidate that would have given
\* one more path was not looked at
C24_Witness ==
  /\ rtDone
  /\ Len(rtByPath) = rtK
  /\ rtIdx <= Len(rtRaw)
  /\ \E i \in 1..(rtIdx - 1) :
       /\ rtRaw[i].path = rtByPath[1].path
       /\ SimOf(rtRaw[i]) < rtMinSim
  /\ \E i \in rtIdx..Len(rtRaw) :
       /\ ~Skips(rtRaw[i], rtMinSim)
       /\ ~HasPath(rtByPath, rtRaw[i].path)

\* both calls have ended
RaceOver == \A t \in Threads : rcThr[t].pc \in {"returned", "raised"}

\* C25: with two builds for different keys in two threads the cache is never
\* seen with more than REPO_CACHE_MAX entries, no build raises because of the
\* eviction of the other, and when both have returned the cache holds at
\* most REPO_CACHE_MAX entries.
C25_EvictionAppearsAtomic ==
  rcThr # << >> /\ rcThr[1].key # rcThr[2].key =>
    /\ Len(rcPacks) <= REPO_CACHE_MAX
    /\ \A t \in Threads : rcThr[t].pc # "raised"
    /\ RaceOver => Len(rcPacks) <= REPO_CACHE_MAX

\* C26: when two calls for one key have both missed the cache and built, both
\* return, the cache holds the key once and the collection of the key holds
\* the ids of a single build.
C26_DuplicateBuildTolerated ==
  /\ rcThr # << >>
  /\ rcThr[1].key = rcThr[2].key
  /\ \A t \in Threads : rcThr[t].build = "cold"
  /\ RaceOver
  => /\ \A t \in Threads : rcThr[t].pc = "returned"
     /\ Cardinality({i \in DOMAIN rcPacks : rcPacks[i] = rcThr[1].key}) = 1
     /\ rcIds[rcThr[1].key] = SnapshotIds

\* C27: a round whose fetch raised, or brought a text over the per-file
\* ceiling, leaves the chunks, the character total and the files taken as they
\* were and goes on to the next candidate; and the loop ends only when the
\* candidates are used up or the character budget is passed, never on a file
\* that was skipped.
C27_SkippedFileChangesNothing ==
  /\ [][bdLast' \in {"error", "too_long"} /\ bdFetched' # bdFetched =>
          /\ bdChunks' = bdChunks
          /\ bdTotal' = bdTotal
          /\ bdAccepted' = bdAccepted
          /\ bdPhase' = "fetch"
          /\ bdIdx' = bdIdx + 1]_vars
  /\ [](bdPhase = "upsert" =>
          Len(bdFetched) = Len(bdCands) \/ bdTotal > MAX_TOTAL_CHARS)
  /\ [](bdPhase = "fetch" => Len(bdFetched) = bdIdx - 1)

\* a file was taken, the next one was skipped, and the file after it was
\* fetched, chunked and taken
C27_Witness ==
  /\ Len(bdFetched) = 3
  /\ Len(bdAccepted) = 2
  /\ bdAccepted[1].path = bdFetched[1]
  /\ bdAccepted[2].path = bdFetched[3]
  /\ bdAccepted[2].n > 0
  /\ bdLast = "read"

\* C28: when the embedding of a batch yields no vector for some of its
\* sub-fragments, whether the service returned an empty vector or failed on
\* them, exactly those sub-fragments are left out: every other sub-fragment
\* of the batch is in the collection with its own identifier, text, metadata
\* and the vector of this call.
C28_OnlyVectorlessDropped ==
  upPhase = "done" /\ upIds # << >> =>
    /\ upKept = {upIds[i] : i \in (1..Len(upIds)) \ upEmbed.lost}
    /\ \A i \in (1..Len(upIds)) \ upEmbed.lost :
         /\ upIds[i] \in DOMAIN upStore
         /\ upStore[upIds[i]] =
              [doc |-> upRows[i].doc, meta |-> upRows[i].meta, emb |-> upCall]

\* C29: every text handed to the Embedding Service, for the sub-fragments of
\* an ingestion and for the text of a query, is non-empty (and not blank) and
\* no longer than MAX_EMBED_CHARS.
C29_HandedTextsWithinLimit ==
  \A i \in DOMAIN upEmbed.handed :
    /\ upEmbed.handed[i] # << >>
    /\ Strip(upEmbed.handed[i]) # << >>
    /\ Len(upEmbed.handed[i]) <= MAX_EMBED_CHARS

\* a query whose text is over the limit was handed over in two parts, after
\* an ingestion that stored a sub-fragment cut from a chunk over the limit
C29_Witness ==
  /\ upPhase = "queried"
  /\ Len(upEmbed.handed) = 2
  /\ Len(upEmbed.handed[1]) = MAX_EMBED_CHARS
  /\ \E i \in DOMAIN upChunks : Len(upChunks[i].text) > MAX_EMBED_CHARS
  /\ \E i \in DOMAIN upIds : upIds[i][4] = 1 /\ upIds[i] \in upColl

\* C30: a stored snapshot is read-only.  From one step to the next an entry
\* of the cache either stays as it is, every field of its issue record
\* included, or is gone (evicted); no step of a cold build or of a hit
\* rewrites it.
C30_StoredSnapshotReadOnly ==
  [][\A i \in DOMAIN pkPacks :
       InPacks(pkPacks', pkPacks[i].repo_key) =>
         PackAt(pkPacks', pkPacks[i].repo_key) = pkPacks[i]]_vars

\* the line ranges of the chunks are in increasing order and pairwise disjoint
RangesInOrder(chunks) ==
  \A i \in DOMAIN chunks : \A j \in DOMAIN chunks :
    i < j => chunks[i].end_line < chunks[j].start_line

\* every non-blank line of lines lies in the range of one of the chunks
CoversNonBlank(chunks, lines) ==
  \A n \in DOMAIN lines :
    Strip(lines[n]) # << >> =>
      \E i \in DOMAIN chunks : chunks[i].start_line <= n /\ n <= chunks[i].end_line

\* C31: the chunks a chunker returns for a file have pairwise disjoint line
\* ranges in increasing order and together cover every non-blank line of the
\* file, the lines before the first def or class header included.
C31_ChunksPartitionNonBlankLines ==
  ckDone =>
    \A lines \in {SplitLines(ckText)} :
      RangesInOrder(ckOut) /\ CoversNonBlank(ckOut, lines)

EmptyDoc(d) == d.high_level_goal.v = << >> /\ \A i \in 1..4 : d[ListKeys[i]].v = << >>

\* the generated text holds a JSON object, or its lines ls hold a non-blank
\* line that is not a heading line
HasContent(ls) ==
  \/ genText # << >> /\ JsonPayload(genJson).t = "obj"
  \/ \E heads \in {HeadingLines(ls)} :
       \E j \in 1..Len(ls) : Strip(ls[j]) # << >> /\ j \notin heads

\* C33: when generation succeeded with a text that holds a JSON object or a
\* non-blank line outside the heading lines, the document returned is not
\* empty: its goal or one of its four lists is not empty.
C33_ContentGivesNonEmptyDoc ==
  normStage \in {"json", "headings", "classify"} =>
    \A ls \in {SplitLines(StripTicks(StripBold(Strip(genText))))} :
      HasContent(ls) => ~EmptyDoc(normDoc)

====
